---- MODULE Spec2Model ----
(***************************************************************************)
(* Neighbour discovery of Djegger/ScriptPI.                                *)
(*                                                                         *)
(*   - the binary-format agent  (neighboragent.c, src/unnamed/part_003)    *)
(*   - the binary-format client (neighborshow.c,  src/unnamed/part_001)    *)
(*                                                                         *)
(* Four specifications share the variables and the operators below:        *)
(*   SpecAgent   one agent instance fed arbitrary datagrams,               *)
(*   SpecAgentErr  the same on shorter runs, each iteration recorded,      *)
(*               with failing calls,                                       *)
(*   SpecNet     one client round flooding a network of agents,            *)
(*   SpecClient  the client's timed collection loop.                       *)
(* SpecNetFair and SpecClientFair add the fairness the liveness properties *)
(* need.                                                                   *)
(***************************************************************************)
EXTENDS Integers, Sequences, FiniteSets, Bags, TLC

(***************************************************************************)
(* Program constants and model bounds                                      *)
(***************************************************************************)
\* #define CACHE_SIZE 100 in the source; scaled down, the cache code is
\* uniform in the size.
CACHE_SIZE == 2

\* sizeof(discovery_request_t): unsigned int request_id + int hops.
REQ_SIZE == 8

\* #define RESPONSE_WAIT_TIME 3 (seconds).
RESPONSE_WAIT_TIME == 3

\* The select() timeout of the collection loop: timeout.tv_sec = 1.
SELECT_TIMEOUT == 1

\* #define MAX_HOSTS 100 in the source; scaled down.
MAX_HOSTS == 2

\* #define MAX_BUF 1024 in the source; scaled down.  Host names of the model
\* are one byte long, so (as in the source) a host name and its terminator
\* are shorter than the buffer.
MAX_BUF == 3

\* Request ids of the model are 0..MaxId (0 is the value memset leaves in an
\* unused cache slot).
MaxId == 3

\* Largest hop budget of a request.
MaxHops == 3

\* Readings of the agent's time() are 0..MaxClock.
MaxClock == 1

\* Number of datagrams handed to the agent under test in SpecAgent.
MaxDeliveries == 4

\* SpecNet runs on every topology of at most MaxLinks links (and on the
\* chain and the ring below).
MaxLinks == 2

\* SpecAgentErr runs the agent for MaxFaultSteps + 1 iterations; a call can
\* fail in each but the last.
MaxFaultSteps == 1

\* Sub-second resolution of real time: ticks per second of time().
TicksPerSec == 2

Agents == {"A", "B", "C"}
Client == "cl"
Nodes == Agents \cup {Client}
Ids == 0..MaxId
Slots == 0..(CACHE_SIZE - 1)
HopValues == (-1)..MaxHops
\* The hop fields handed to the agent under test: negative, 0, 1, above 1.
AgentHops == {-1, 0, 1, 2}

VARIABLES
    cache,      \* cache[a][i]: slot i of agent a's request_cache_entry_t array
    clock,      \* the reading time(NULL) gives the agents
    order,      \* history: order[a], the written slots of a, oldest insertion first
    evicted,    \* history: evicted[a], the ids overwritten in a's cache so far
    delivered,  \* history: delivered[a], ids of the well-formed requests a received
    replies,    \* history: replies[a][id], hostname replies a sent for id
    relays,     \* history: relays[a][id], rebroadcast_request calls of a for id
    lastAdd,    \* history: what the last handled datagram did to the cache
    relayLog,   \* history (SpecNet): one record per rebroadcast_request call
    steps,      \* history: datagrams handed to the agent under test
    lastIn,     \* history (SpecAgentErr): the last iteration of the agent under
                \* test: the datagram, what was sent for it, the call that failed
    failed,     \* history: the last call of the agent under test that failed
    agPc,       \* agPc[a]: position of agent a in main
    relayCall,  \* SpecRelay: relayCall.ifaces, the network interfaces of the
                \* host, and the history relayCall.out of the last relay
    tx,         \* the text-format agent: tx.seen = seen_messages[0..seen_count-1],
                \* tx.pc its position in main, and the history: tx.last the
                \* last iteration, tx.count[p] the replies and relays sent
                \* for the pair p, tx.steps the iterations made
    srv,        \* the interface server (ifnetshowserv.c): its position in
                \* main, the connection being served and what was written
    net,        \* bag of the datagrams in flight
    links,      \* the topology: set of two-element sets of nodes
    round,      \* the client's request: [request_id, hops]
    dropped,    \* history: 1 once the network has lost a datagram
    clPc,       \* position of the client in main
    hosts,      \* hosts[1..host_count], each a MAX_BUF byte array
    received,   \* history: identities (C strings) the client received
    rt,         \* real time in ticks
    start_time, \* the client's start_time = time(NULL)
    selStart,   \* real time at which the pending select() was called
    rtStart,    \* history: real time at which the collection phase started
    everIdle,   \* history: 1 once a select() of the client has timed out
    everReady,  \* history: 1 once a select() of the client has returned > 0
    garbage,    \* garbage[i]: the indeterminate last byte of the row hosts[i]
    argv,       \* the text of the client's hop argument (argv[2])
    clErr,      \* history: the last call of the client that failed
    clSends,    \* history: number of sendto calls of the client
    status,     \* the exit status of the client, -1 while it runs
    output      \* the result sets the client has printed

agentAux == <<lastIn, failed, agPc>>
relayVars == <<relayCall>>
textVars == <<tx>>
serverVars == <<srv>>
agentVars == <<cache, clock, order, evicted, delivered, replies, relays, lastAdd,
               relayLog, steps, agentAux, relayVars, textVars, serverVars>>
netVars == <<net, links, round, dropped>>
clientAux == <<argv, clErr, clSends, status, output>>
clientVars == <<clPc, hosts, received, rt, start_time, selStart, rtStart, everIdle,
                everReady, garbage, clientAux>>
vars == <<agentVars, netVars, clientVars>>

Min(a, b) == IF a < b THEN a ELSE b

(***************************************************************************)
(* The seen cache of the agent                                             *)
(***************************************************************************)
\* memset(cache, 0, sizeof(cache))
EmptyCache == [i \in Slots |-> [request_id |-> 0, timestamp |-> 0]]

\* A faulty variant of IsInCache: looks at slot 0 only.
IsInCacheFirstSlot(c, request_id) == c[0].request_id = request_id

\* bool is_in_cache(unsigned int request_id)
IsInCache(c, request_id) == \E i \in Slots : c[i].request_id = request_id

\* The first loop of add_to_cache: the lowest slot whose request_id is 0,
\* or -1 when there is none.
FirstFree(c) ==
    IF \E i \in Slots : c[i].request_id = 0
    THEN CHOOSE i \in Slots : /\ c[i].request_id = 0
                              /\ \A j \in Slots : j < i => c[j].request_id # 0
    ELSE -1

\* The second loop of add_to_cache, from index i on.
RECURSIVE OldestScan(_, _, _, _)
OldestScan(c, i, oldest_index, oldest_time) ==
    IF i >= CACHE_SIZE THEN oldest_index
    ELSE IF c[i].timestamp < oldest_time
         THEN OldestScan(c, i + 1, i, c[i].timestamp)
         ELSE OldestScan(c, i + 1, oldest_index, oldest_time)

\* int oldest_index = 0; time_t oldest_time = cache[0].timestamp; for (i = 1 ...
OldestIndex(c) == OldestScan(c, 1, 0, c[0].timestamp)

\* The slot add_to_cache writes.
TargetSlot(c) == IF FirstFree(c) # -1 THEN FirstFree(c) ELSE OldestIndex(c)

\* void add_to_cache(unsigned int request_id), with now = time(NULL)
AddToCache(c, request_id, now) ==
    [c EXCEPT ![TargetSlot(c)] = [request_id |-> request_id, timestamp |-> now]]

(***************************************************************************)
(* Datagrams                                                               *)
(***************************************************************************)
\* A discovery request: the 8 bytes of a discovery_request_t.  len is the
\* length of the datagram on the wire (the senders of this repository always
\* send REQ_SIZE bytes; SpecAgent also hands over other lengths).
Request(src, dst, len, request_id, hops) ==
    [kind |-> "req", src |-> src, dst |-> dst, len |-> len,
     request_id |-> request_id, hops |-> hops, payload |-> <<>>]

\* A hostname reply: the bytes of the host name and its terminating NUL.
Reply(src, dst, payload) ==
    [kind |-> "rep", src |-> src, dst |-> dst, len |-> Len(payload),
     request_id |-> 0, hops |-> 0, payload |-> payload]

\* gethostname(): the host names of the agents, one non-NUL byte each.
HostByte(a) == CASE a = "A" -> 1 [] a = "B" -> 2 [] OTHER -> 3
Hostname(a) == <<HostByte(a)>>

(***************************************************************************)
(* The receive loop of the agent (main of neighboragent.c)                 *)
(***************************************************************************)
\* recvfrom(sockfd, &req, sizeof(req), ...): at most sizeof(req) bytes are
\* stored, the rest of a longer datagram is discarded.
RecvLen(d) == Min(d.len, REQ_SIZE)

\* if (recv_len == sizeof(discovery_request_t))
WellFormed(d) == RecvLen(d) = REQ_SIZE

\* A faulty variant of FirstSeen: the cache lookup is skipped.
FirstSeenNoLookup(c, d) == WellFormed(d)

\* if (recv_len == sizeof(...)) { if (!is_in_cache(req.request_id)) { ...
FirstSeen(c, d) == WellFormed(d) /\ ~IsInCache(c, d.request_id)

\* A faulty variant of ShouldRelay: relays while the budget is not zero.
ShouldRelayNonZero(hops) == hops > 0

\* if (req.hops > 1)
ShouldRelay(hops) == hops > 1

\* A faulty variant of RelayedHops: the budget is not decremented.
RelayedHopsSame(hops) == hops

\* A faulty variant of RelayedHops: the budget is decremented twice.
RelayedHopsTwice(hops) == hops - 2

\* req.hops--
RelayedHops(hops) == hops - 1

\* A faulty variant of ReplyDest: see ReplyDest.
ReplyDestSelf(a, d) == a

\* sendto(sockfd, hostname, ..., &client_addr, addr_len): client_addr is the
\* source address recvfrom stored for this datagram.
ReplyDest(a, d) == d.src

\* strlen(hostname)+1 bytes of the host name.
HostnameReply(a, d) == Reply(a, ReplyDest(a, d), Hostname(a) \o <<0>>)

RemoveSlot(seq, s) == SelectSeq(seq, LAMBDA x : x # s)

\* The history counts the request ids of Ids.
Bump(f, a, id) == IF id \in DOMAIN f[a] THEN [f EXCEPT ![a][id] = @ + 1] ELSE f

\* History of the relay (if any) the agent a makes for the datagram d.
RelayRecords(a, d) ==
    IF FirstSeen(cache[a], d) /\ ShouldRelay(d.hops)
    THEN {[agent |-> a, request_id_in |-> d.request_id, hops_in |-> d.hops,
           request_id_out |-> d.request_id, hops_out |-> RelayedHops(d.hops)]}
    ELSE {}

\* The number of cache writes made after the last write of the slot s, in
\* the history seq of written slots (oldest first); -1 when s was never
\* written.
WrittenAfter(seq, s) ==
    IF \E p \in 1..Len(seq) : seq[p] = s
    THEN Len(seq) - (CHOOSE p \in 1..Len(seq) : seq[p] = s)
    ELSE -1

\* History of the cache write (if any) the agent a makes for the datagram d.
AddRecord(a, d) ==
    LET c     == cache[a]
        fresh == FirstSeen(c, d)
    IN  [kind |-> IF ~fresh THEN "none"
                  ELSE IF FirstFree(c) = -1 THEN "evict" ELSE "fill",
         slot |-> IF fresh THEN TargetSlot(c) ELSE -1,
         oldest |-> IF order[a] = <<>> THEN -1 ELSE Head(order[a]),
         newer |-> IF fresh THEN WrittenAfter(order[a], TargetSlot(c)) ELSE -1,
         request_id |-> d.request_id,
         before |-> c]

\* A faulty variant of CacheAfter: a lookup hit refreshes the timestamp.
CacheAfterRefresh(c, d, now) ==
    IF FirstSeen(c, d) THEN AddToCache(c, d.request_id, now)
    ELSE IF WellFormed(d)
         THEN [i \in Slots |->
                 IF c[i].request_id = d.request_id
                 THEN [request_id |-> c[i].request_id, timestamp |-> now]
                 ELSE c[i]]
         ELSE c

\* The cache after one iteration for the datagram d, started with the cache c
\* at time now: add_to_cache on a first sighting, nothing else (is_in_cache
\* only reads).
CacheAfter(c, d, now) ==
    IF FirstSeen(c, d) THEN AddToCache(c, d.request_id, now) ELSE c

\* The effect of one iteration of agent a for the datagram d on a's cache
\* and on the history of the cache.
CacheStep(a, d) ==
    LET c     == cache[a]
        fresh == FirstSeen(c, d)
        slot  == TargetSlot(c)
    IN  /\ cache' = [cache EXCEPT ![a] = CacheAfter(c, d, clock)]
        /\ order' = [order EXCEPT ![a] =
                        IF fresh THEN Append(RemoveSlot(@, slot), slot) ELSE @]
        /\ evicted' = [evicted EXCEPT ![a] =
                        IF fresh /\ (\E i \in 1..Len(order[a]) : order[a][i] = slot)
                        THEN @ \cup {c[slot].request_id} ELSE @]
        /\ delivered' = [delivered EXCEPT ![a] =
                        IF WellFormed(d) THEN @ \cup {d.request_id} ELSE @]

\* One iteration of while (1) of the agent a for the received datagram d,
\* every call succeeding: its effect on the cache and on the history
\* variables.  What the iteration sends is AgentSends below.
AgentReceive(a, d) ==
    LET fresh == FirstSeen(cache[a], d)
        relay == fresh /\ ShouldRelay(d.hops)
    IN  /\ CacheStep(a, d)
        /\ replies' = IF fresh THEN Bump(replies, a, d.request_id) ELSE replies
        /\ relays' = IF relay THEN Bump(relays, a, d.request_id) ELSE relays

Neighbours(n) == {m \in Nodes : {n, m} \in links}

\* The agents a broadcast of node n on port 9999 reaches: the agents on n's
\* broadcast domains and, for an agent, its own socket.
BroadcastReach(n) == (Neighbours(n) \cup {n}) \cap Agents

\* rebroadcast_request(sockfd, &req): one copy of the request per reached
\* agent, all interfaces being up and broadcast-capable.
Rebroadcast(a, d) ==
    {Request(a, m, REQ_SIZE, d.request_id, RelayedHops(d.hops)) :
        m \in BroadcastReach(a)}

\* A faulty variant of AgentSends: no reply without a positive hop budget.
AgentSendsPositiveHops(a, c, d) ==
    IF FirstSeen(c, d)
    THEN (IF d.hops >= 1 THEN {HostnameReply(a, d)} ELSE {}) \cup
         (IF ShouldRelay(d.hops) THEN Rebroadcast(a, d) ELSE {})
    ELSE {}

\* The datagrams agent a sends while handling d with cache c.
AgentSends(a, c, d) ==
    IF FirstSeen(c, d)
    THEN {HostnameReply(a, d)} \cup
         (IF ShouldRelay(d.hops) THEN Rebroadcast(a, d) ELSE {})
    ELSE {}

\* The calls of the receive loop that can fail: recvfrom, the sendto of the
\* reply, and in rebroadcast_request the setsockopt, the ioctl SIOCGIFCONF
\* and the sendto on an interface.
Failures == {"recvfrom", "reply", "setsockopt", "ioctl", "relay"}

\* A faulty variant of AfterFailure: the agent gives up.
AfterFailureExit(f) == "exit"

\* Where main goes on after the call f failed: perror, then the next
\* iteration of while (1) (continue, return from rebroadcast_request, or the
\* next interface and then the end of the iteration).
AfterFailure(f) == "recv"

\* recvfrom failed: no datagram, req is as memset left it.
NoDatagram == Request(Client, "A", 0, 0, 0)

\* Has the iteration for d with cache c a call f to fail at?
FailureApplies(c, d, f) ==
    CASE f = "recvfrom" -> d = NoDatagram
      [] f = "reply"    -> d # NoDatagram /\ FirstSeen(c, d)
      [] OTHER          -> d # NoDatagram /\ FirstSeen(c, d) /\ ShouldRelay(d.hops)

\* The datagrams agent a sends while handling d with cache c when the call f
\* fails; lost are the relay copies whose sendto failed.
SendsUnder(a, c, d, f, lost) ==
    CASE f = "recvfrom" -> {}
      [] f = "reply"    -> AgentSends(a, c, d) \ {HostnameReply(a, d)}
      [] f = "relay"    -> AgentSends(a, c, d) \ lost
      [] OTHER          -> AgentSends(a, c, d) \cap {HostnameReply(a, d)}

\* A faulty variant of AgentReceiveFailing: the request id is cached after
\* the reply was sent, and only when that send succeeded.
AgentReceiveFailingSendFirst(a, d, f) ==
    LET fresh == FirstSeen(cache[a], d)
        relay == fresh /\ ShouldRelay(d.hops)
    IN  /\ IF f = "reply"
           THEN /\ UNCHANGED <<cache, order, evicted>>
                /\ delivered' = [delivered EXCEPT ![a] = @ \cup {d.request_id}]
           ELSE CacheStep(a, d)
        /\ replies' = IF fresh /\ f # "reply"
                      THEN Bump(replies, a, d.request_id) ELSE replies
        /\ relays' = IF relay THEN Bump(relays, a, d.request_id) ELSE relays
        /\ agPc' = [agPc EXCEPT ![a] = AfterFailure(f)]

\* One iteration of while (1) of the agent a in which the call f fails.
AgentReceiveFailing(a, d, f) ==
    LET fresh == FirstSeen(cache[a], d)
        relay == fresh /\ ShouldRelay(d.hops)
    IN  /\ CacheStep(a, d)
        /\ replies' = IF fresh /\ f # "reply"
                      THEN Bump(replies, a, d.request_id) ELSE replies
        /\ relays' = IF relay THEN Bump(relays, a, d.request_id) ELSE relays
        /\ agPc' = [agPc EXCEPT ![a] = AfterFailure(f)]

(***************************************************************************)
(* rebroadcast_request over the interfaces of the host                     *)
(***************************************************************************)
\* struct ifreq ifr[20]: the number of entries SIOCGIFCONF can return.
IFR_MAX == 2

\* The flag bits of an interface the relay looks at.
IfFlagSets == SUBSET {"IFF_UP", "IFF_BROADCAST"}

\* One local interface: do SIOCGIFFLAGS and SIOCGIFBRDADDR succeed for it
\* (the latter fails when no broadcast address is configured), and its flags.
IfKinds ==
    {k \in [flagsOk : BOOLEAN, flags : IfFlagSets, brdOk : BOOLEAN] :
        ~k.flagsOk => k.flags = {}}

\* The interface tables of a host: one interface more than ifr can hold.
IfTables == UNION {[1..n -> IfKinds] : n \in 1..(IFR_MAX + 1)}

\* int nifs = ifc.ifc_len / sizeof(struct ifreq), with ifc_len at most
\* sizeof(ifr) on return of SIOCGIFCONF.
Nifs(ifs) == Min(Len(ifs), IFR_MAX)

\* The interface passes the tests of the loop body: SIOCGIFFLAGS succeeds,
\* IFF_UP and IFF_BROADCAST are set, SIOCGIFBRDADDR succeeds.
Sendable(k) ==
    /\ k.flagsOk
    /\ "IFF_UP" \in k.flags
    /\ "IFF_BROADCAST" \in k.flags
    /\ k.brdOk

\* for (int i = 0; i < nifs; i++) { ... sendto(sockfd, req, sizeof(*req), 0,
\* baddr, ...) }: the sendto calls made from interface i on, appended to out;
\* failing are the interfaces on which sendto fails (perror only).
RECURSIVE RelayLoop(_, _, _, _, _)
RelayLoop(ifs, i, req, failing, out) ==
    IF i > Nifs(ifs) THEN out
    ELSE RelayLoop(ifs, i + 1, req, failing,
                   IF Sendable(ifs[i])
                   THEN Append(out, [ifc |-> i, req |-> req,
                                     ok |-> i \notin failing])
                   ELSE out)

\* rebroadcast_request(sockfd, req) on a host with the interfaces ifs: the
\* sendto calls it makes, in order; none when setsockopt(SO_BROADCAST) or
\* ioctl(SIOCGIFCONF) fails (f names the failing call).
RebroadcastRequest(ifs, req, f, failing) ==
    IF f \in {"setsockopt", "ioctl"} THEN <<>>
    ELSE RelayLoop(ifs, 1, req, failing, <<>>)

\* No rebroadcast_request call yet.
NoRelayCall ==
    [calls |-> 0, arrived |-> 0, failure |-> "none",
     req |-> [request_id |-> 0, hops |-> 0], sends |-> <<>>]

(***************************************************************************)
(* The text-format agent (neighbourshowagent.c)                            *)
(***************************************************************************)
\* #define MAX_SEEN 1000
MAX_SEEN == 2

\* sizeof(origin) - 1 for char origin[64]: the width of %63s and of the
\* strncpy in mark_as_seen.
ORIGIN_MAX == 2

\* #define AGENT_PORT 9999
AGENT_PORT == 9999

\* The first n characters of s.
TakePrefix(s, n) == SubSeq(s, 1, Min(Len(s), n))

\* An origin of one character more than origin[] holds.
LongOrigin == [i \in 1..(ORIGIN_MAX + 1) |-> "a"]

\* The origins (host names of clients) and message ids on the wire.
TextOrigins == {<<"a">>, LongOrigin}
MsgIds == {1, 2}
TextHops == {1, 2}

\* The datagram "<tag> message_id=<id> hop=<hop> origin=<origin>" sent by
\* src; fields is the number of conversions sscanf completes on it.
TextRequest(src, tag, fields, message_id, hop, origin) ==
    [src |-> src, tag |-> tag, fields |-> fields, message_id |-> message_id,
     hop |-> hop, origin |-> origin]

\* sscanf(buffer, "%s message_id=%d hop=%d origin=%63s", ...): the values
\* read; the origin is cut after ORIGIN_MAX characters.
Sscanf(m) ==
    [count |-> m.fields, msg_id |-> m.message_id, hop |-> m.hop,
     origin |-> TakePrefix(m.origin, ORIGIN_MAX)]

\* The (origin, message_id) pairs the agent can read from its datagrams.
TextPairs ==
    {<<TakePrefix(o, ORIGIN_MAX), id>> : o \in TextOrigins, id \in MsgIds}

\* static int has_already_seen(const char *origin, int msg_id)
HasAlreadySeen(sn, origin, msg_id) ==
    \E i \in 1..Len(sn) : sn[i].message_id = msg_id /\ sn[i].origin = origin

\* static void mark_as_seen(const char *origin, int msg_id)
MarkAsSeen(sn, origin, msg_id) ==
    IF Len(sn) < MAX_SEEN
    THEN Append(sn, [origin |-> TakePrefix(origin, ORIGIN_MAX),
                     message_id |-> msg_id])
    ELSE sn

\* strncmp(buffer, "NEIGHBOR_DISCOVERY", 18) == 0 and sscanf(...) == 4
TextWellFormed(m) == m.tag = "NEIGHBOR_DISCOVERY" /\ Sscanf(m).count = 4

\* The datagram passes the tests down to if (!has_already_seen(origin, msg_id)).
TextFirstSeen(sn, m) ==
    /\ TextWellFormed(m)
    /\ ~HasAlreadySeen(sn, Sscanf(m).origin, Sscanf(m).msg_id)

\* The calls of an iteration that can fail: recvfrom, the sendto of the
\* reply, and in send_udp_message the socket and the sendto.
TextFailures == {"recvfrom", "reply", "socket", "relay"}

\* Where main goes on after the call f failed: break after recvfrom, the
\* next iteration otherwise.
TextAfterFailure(f) == IF f = "recvfrom" THEN "exit" ELSE "recv"

\* The sendto calls of one iteration for the datagram m with the seen list
\* sn, in order: the reply with the hostname to the sender, then for hop > 1
\* and a default gateway (gw) the copy built by snprintf with hop - 1, sent
\* to the gateway; f is the failing call ("none": every call succeeds).
TextSends(sn, m, gw, f) ==
    IF ~TextFirstSeen(sn, m) THEN <<>>
    ELSE <<[kind |-> "reply", dst |-> m.src, port |-> 0, ok |-> f # "reply",
            body |-> Hostname("A")]>> \o
         (IF Sscanf(m).hop > 1 /\ gw /\ f # "socket"
          THEN <<[kind |-> "relay", dst |-> "gateway", port |-> AGENT_PORT,
                  ok |-> f # "relay",
                  body |-> TextRequest("A", "NEIGHBOR_DISCOVERY", 4,
                                       Sscanf(m).msg_id, Sscanf(m).hop - 1,
                                       Sscanf(m).origin)]>>
          ELSE <<>>)

\* No datagram: recvfrom failed or has not returned yet.
NoText == TextRequest(Client, "", 0, 0, 0, <<>>)

\* No iteration yet.
NoIteration ==
    [msg |-> NoText, gateway |-> FALSE, failure |-> "none", sent |-> <<>>,
     fresh |-> FALSE]

(***************************************************************************)
(* SpecAgent: the agent "A" is handed arbitrary datagrams                  *)
(***************************************************************************)
NoLinks == {}
NoRound == [request_id |-> 0, hops |-> 0]

BinaryAgentInit ==
    /\ cache = [a \in Agents |-> EmptyCache]
    /\ clock = 0
    /\ order = [a \in Agents |-> <<>>]
    /\ evicted = [a \in Agents |-> {}]
    /\ delivered = [a \in Agents |-> {}]
    /\ replies = [a \in Agents |-> [id \in Ids |-> 0]]
    /\ relays = [a \in Agents |-> [id \in Ids |-> 0]]
    /\ lastAdd = [kind |-> "none", slot |-> -1, oldest |-> -1, newer |-> -1,
                  request_id |-> 0,
                  before |-> EmptyCache]
    /\ relayLog = {}
    /\ steps = 0
    /\ lastIn = [datagram |-> NoDatagram, sent |-> {}, failure |-> "none"]
    /\ failed = "none"
    /\ agPc = [a \in Agents |-> "recv"]

\* The text-format agent after bind: static int seen_count = 0.
TextAgentInit ==
    tx = [seen |-> <<>>, pc |-> "recv", last |-> NoIteration,
          count |-> [p \in TextPairs |-> [replies |-> 0, relays |-> 0]],
          steps |-> 0]

\* No text-format agent runs.
TextAgentOff == tx = <<>>

\* The interfaces of the host are not looked at.
RelayOff == relayCall = <<>>

\* No interface server runs.
ServerOff == srv = <<>>

AgentHistoryInit ==
    /\ BinaryAgentInit
    /\ TextAgentOff
    /\ RelayOff
    /\ ServerOff

ClientAuxInit ==
    /\ argv = <<>>
    /\ clErr = "none"
    /\ clSends = 0
    /\ status = -1
    /\ output = <<>>

ClientIdle ==
    /\ clPc = "off"
    /\ hosts = <<>>
    /\ received = {}
    /\ rt = 0
    /\ start_time = 0
    /\ selStart = 0
    /\ rtStart = 0
    /\ everIdle = 0
    /\ everReady = 0
    /\ garbage = [i \in 1..MAX_HOSTS |-> 0]
    /\ ClientAuxInit

AgentInit ==
    /\ AgentHistoryInit
    /\ net = EmptyBag
    /\ links = NoLinks
    /\ round = NoRound
    /\ dropped = 0
    /\ ClientIdle

\* The datagrams handed to the agent under test: requests of REQ_SIZE bytes
\* with any request id and hop field, a longer datagram for every request id
\* (its first REQ_SIZE bytes a request with hop field 2), and a shorter
\* datagram (req was cleared by memset; its fields are not read).
AgentInputs ==
    {Request(Client, "A", REQ_SIZE, id, hops) : id \in Ids, hops \in AgentHops}
    \cup {Request(Client, "A", REQ_SIZE + 1, id, 2) : id \in Ids}
    \cup {Request(Client, "A", REQ_SIZE - 1, 0, 0)}

\* One iteration of the agent under test for the datagram d recvfrom
\* returned, every call succeeding.
AgentStep(d) ==
    /\ steps < MaxDeliveries
    /\ agPc["A"] = "recv"
    /\ AgentReceive("A", d)
    /\ lastAdd' = AddRecord("A", d)
    /\ steps' = steps + 1
    /\ UNCHANGED <<clock, relayLog, failed, agPc, relayVars, textVars, serverVars,
                   netVars,
                   clientVars>>

\* recvfrom returns a datagram of any length, request id and hop field.
AgentDeliver == \E d \in AgentInputs : AgentStep(d) /\ UNCHANGED lastIn

\* The agent's clock moves on by one second.
AgentTick ==
    /\ clock < MaxClock
    /\ clock' = clock + 1
    /\ UNCHANGED <<cache, order, evicted, delivered, replies, relays, lastAdd,
                   relayLog, steps, agentAux, relayVars, textVars, serverVars,
                   netVars,
                   clientVars>>

AgentNext == AgentDeliver \/ AgentTick

SpecAgent == AgentInit /\ [][AgentNext]_vars

\* One of the first MaxFaultSteps iterations of the agent under test has a
\* failing call.
AgentFail ==
    \E f \in Failures, d \in AgentInputs \cup {NoDatagram} :
        \E lost \in SUBSET Rebroadcast("A", d) :
            /\ steps < MaxFaultSteps
            /\ agPc["A"] = "recv"
            /\ FailureApplies(cache["A"], d, f)
            /\ IF f = "relay" THEN lost # {} ELSE lost = {}
            /\ AgentReceiveFailing("A", d, f)
            /\ lastAdd' = AddRecord("A", d)
            /\ lastIn' = [datagram |-> d,
                          sent |-> SendsUnder("A", cache["A"], d, f, lost),
                          failure |-> f]
            /\ failed' = f
            /\ steps' = steps + 1
            /\ UNCHANGED <<clock, relayLog, relayVars, textVars, serverVars,
                           netVars,
                           clientVars>>

\* An iteration without a failure, among the first MaxFaultSteps + 1; what
\* it received and sent is recorded.
AgentErrDeliver ==
    \E d \in AgentInputs :
        /\ steps <= MaxFaultSteps
        /\ AgentStep(d)
        /\ lastIn' = [datagram |-> d, sent |-> AgentSends("A", cache["A"], d),
                      failure |-> "none"]

\* The agent's clock moves on by one second during the recorded iterations.
AgentErrTick == steps <= MaxFaultSteps /\ AgentTick

AgentErrNext == AgentErrDeliver \/ AgentFail \/ AgentErrTick

\* The agent under test in detail: MaxFaultSteps + 1 iterations, each
\* recorded with the datagram received and the datagrams sent, with transport
\* failures in all but the last one.
SpecAgentErr == AgentInit /\ [][AgentErrNext]_vars

(***************************************************************************)
(* Claims about one agent instance                                         *)
(***************************************************************************)
\* C1: idempotent suppression.  Whenever well-formed requests carrying a
\* request id have been delivered to the agent (and the id was not evicted
\* from the cache in between), the agent has sent exactly one reply and
\* performed at most one relay for that id.
C1_IdempotentSuppression ==
    \A id \in Ids :
        (id \in delivered["A"] /\ id \notin evicted["A"])
            => (replies["A"][id] = 1 /\ relays["A"][id] <= 1)

\* The same statement for the request ids other than 0: it holds.
C1_NonZeroIds ==
    \A id \in Ids \ {0} :
        (id \in delivered["A"] /\ id \notin evicted["A"])
            => (replies["A"][id] = 1 /\ relays["A"][id] <= 1)

\* C6: eviction order.  Whenever add_to_cache ran with every slot occupied,
\* the slot it overwrote is the one written earliest among the slots held.
C6_EvictsEarliestInserted ==
    lastAdd.kind = "evict" => lastAdd.slot = lastAdd.oldest

\* What the code guarantees instead: the overwritten slot carried the
\* smallest timestamp.
C6_EvictsSmallestTimestamp ==
    lastAdd.kind = "evict" =>
        \A i \in Slots :
            lastAdd.before[lastAdd.slot].timestamp <= lastAdd.before[i].timestamp

\* C7: seen-cache uniqueness.  No two occupied cache slots (request_id # 0)
\* of an agent hold the same request id.
C7_CacheUnique ==
    \A a \in Agents : \A i, j \in Slots :
        (i # j /\ cache[a][i].request_id # 0)
            => cache[a][i].request_id # cache[a][j].request_id

\* C7 happens: the cache of "A" is full and an id was evicted and is now
\* cached again.
C7_Witness ==
    /\ \A i \in Slots : cache["A"][i].request_id # 0
    /\ \E i \in Slots : cache["A"][i].request_id \in evicted["A"]

C21_NonZeroIds ==
    LET b == lastAdd.before
        c == cache["A"]
    IN  (lastAdd.kind # "none" /\ lastAdd.request_id # 0) =>
            /\ Cardinality({i \in Slots : c[i].request_id # 0}) <= CACHE_SIZE
            /\ IsInCache(c, lastAdd.request_id)
            /\ \A id \in Ids \ {0} :
                   (IsInCache(b, id) /\ ~IsInCache(c, id)) => FirstFree(b) = -1
            /\ FirstFree(b) # -1 =>
                   \A i \in Slots : b[i].request_id # 0 => c[i] = b[i]

\* C22: re-processing after eviction.  An id the agent has answered twice
\* was evicted in between, and a cache entry is overwritten only after at
\* least CACHE_SIZE - 1 later insertions, so that with the overwriting one at
\* least CACHE_SIZE insertions of other ids lie between two answers.
C22_ReprocessingAfterEviction ==
    /\ \A id \in Ids : replies["A"][id] >= 2 => id \in evicted["A"]
    /\ (lastAdd.kind # "none" /\ lastAdd.newer # -1)
           => lastAdd.newer + 1 >= CACHE_SIZE

\* What the code guarantees: a second answer needs an eviction in between,
\* and the re-delivery is then counted as a first sighting (the reply and
\* relay counters follow the cache writes).
C22_SecondAnswerNeedsEviction ==
    /\ \A id \in Ids : replies["A"][id] >= 2 => id \in evicted["A"]
    /\ \A id \in Ids : relays["A"][id] <= replies["A"][id]

\* The last iteration of the agent under test handled a datagram, every
\* call succeeding.
Handled == steps > 0 /\ lastIn.failure = "none" /\ lastIn.datagram # NoDatagram

RepliesSent == {m \in lastIn.sent : m.kind = "rep"}
RelaysSent == {m \in lastIn.sent : m.kind = "req"}

C12_MalformedDiscarded ==
    (Handled /\ lastIn.datagram.len # REQ_SIZE)
        => (lastIn.sent = {} /\ cache["A"] = lastAdd.before)

\* The same statement for the datagrams shorter than REQ_SIZE: it holds.
C12_ShortDiscarded ==
    (Handled /\ lastIn.datagram.len < REQ_SIZE)
        => (lastIn.sent = {} /\ cache["A"] = lastAdd.before)

\* C13: first request after start-up.  Whenever the agent handled a request
\* of REQ_SIZE bytes while its cache was still as memset left it, it sent
\* exactly one reply, whatever the request id is.
C13_FirstRequestAnswered ==
    ( /\ Handled
      /\ lastIn.datagram.len = REQ_SIZE
      /\ lastAdd.before = EmptyCache )
    => Cardinality(RepliesSent) = 1

\* The same statement for the request ids other than 0: it holds.
C13_NonZeroFirst ==
    ( /\ Handled
      /\ lastIn.datagram.len = REQ_SIZE
      /\ lastIn.datagram.request_id # 0
      /\ lastAdd.before = EmptyCache )
    => Cardinality(RepliesSent) = 1

\* C20: no refresh on lookup.  Whenever the agent handled a request of
\* REQ_SIZE bytes whose request id the cache lookup found, the whole cache,
\* ids and timestamps, is as it was before.
C20_NoRefreshOnLookup ==
    ( /\ Handled
      /\ lastIn.datagram.len = REQ_SIZE
      /\ \E i \in Slots : lastAdd.before[i].request_id = lastIn.datagram.request_id )
    => cache["A"] = lastAdd.before

\* C20 happens: the request handled last carries a non-zero id that was
\* cached in an earlier second than the current one.
C20_Witness ==
    /\ Handled
    /\ lastIn.datagram.len = REQ_SIZE
    /\ lastIn.datagram.request_id # 0
    /\ \E i \in Slots :
        /\ lastAdd.before[i].request_id = lastIn.datagram.request_id
        /\ lastAdd.before[i].timestamp < clock
    /\ cache["A"] = lastAdd.before

\* C14: the agent survives transport errors.  The agent is always in its
\* receive loop, whichever call has failed; and whenever a call failed in an
\* earlier iteration and the agent then handled a request of REQ_SIZE bytes
\* that the cache lookup did not find, it sent its reply.
C14_SurvivesTransportErrors ==
    /\ agPc["A"] = "recv"
    /\ ( /\ failed # "none"
         /\ Handled
         /\ lastIn.datagram.len = REQ_SIZE
         /\ ~(\E i \in Slots :
                lastAdd.before[i].request_id = lastIn.datagram.request_id) )
       => RepliesSent = {Reply("A", lastIn.datagram.src, Hostname("A") \o <<0>>)}

\* C14 happens: a relay send failed in an earlier iteration, and the request
\* handled last was answered and relayed.
C14_Witness ==
    /\ failed = "relay"
    /\ Handled
    /\ lastIn.datagram.len = REQ_SIZE
    /\ RepliesSent # {}
    /\ RelaysSent # {}

\* The reply send of the last iteration failed.
ReplyFailed == steps > 0 /\ lastIn.failure = "reply"

\* The request handled last arrives again after the iteration in which the
\* reply for its request id could not be sent: the last failure was that
\* of a reply send, and no other request id was ever delivered.
RedeliveredAfterReplyFailure ==
    /\ Handled
    /\ failed = "reply"
    /\ WellFormed(lastIn.datagram)
    /\ delivered["A"] = {lastIn.datagram.request_id}

\* C34: cache-before-send ordering.  When the send of the reply failed, the
\* request id is in the cache, no reply left the agent, and the relay was
\* made exactly when the hop field is above 1; and when the same request id
\* is delivered again afterwards, nothing is sent, the id has still never
\* been answered, and the cache stays as it was.
C34_CacheBeforeSend ==
    /\ ReplyFailed =>
          /\ \E i \in Slots :
                cache["A"][i].request_id = lastIn.datagram.request_id
          /\ RepliesSent = {}
          /\ RelaysSent = IF lastIn.datagram.hops > 1
                          THEN Rebroadcast("A", lastIn.datagram) ELSE {}
          /\ (lastIn.datagram.hops > 1) => RelaysSent # {}
    /\ RedeliveredAfterReplyFailure =>
          /\ lastIn.sent = {}
          /\ replies["A"][lastIn.datagram.request_id] = 0
          /\ cache["A"] = lastAdd.before

\* C34 happens: a request with a hop field above 1 arrived again after its
\* reply could not be sent and its relay was made, and was suppressed.
C34_Witness ==
    /\ RedeliveredAfterReplyFailure
    /\ lastIn.datagram.hops > 1
    /\ relays["A"][lastIn.datagram.request_id] = 1
    /\ replies["A"][lastIn.datagram.request_id] = 0
    /\ lastIn.sent = {}

\* C34 happens: the reply send fails and the relay is made.
C34_FailingSend ==
    /\ ReplyFailed
    /\ RelaysSent # {}
    /\ RepliesSent = {}

(***************************************************************************)
(* SpecReplyIn: hostname replies on the socket of an agent                 *)
(***************************************************************************)
\* The longest host name of the model, in bytes; gethostname fills
\* char hostname[128].
MaxNameLen == 8

\* Host names: n bytes b, none of them NUL; a name of REQ_SIZE bytes or more
\* may carry a byte above 127 in the place of the top byte of the hop field.
HostNames ==
    {[i \in 1..n |-> IF i = REQ_SIZE THEN top ELSE b] :
        n \in 1..MaxNameLen, b \in {1, 2}, top \in {1, 255}}

\* The four bytes of the datagram payload p from byte i on, as memset and
\* recvfrom leave them in req: a byte the datagram does not have is 0.
Field(p, i) == [k \in 1..4 |-> IF i + k - 1 <= Len(p) THEN p[i + k - 1] ELSE 0]

\* The unsigned int held in four bytes (little-endian host); the fourth byte
\* of the host names of the model is below 128.
LE32(b) == b[1] + 256 * b[2] + 65536 * b[3] + 16777216 * b[4]

\* The int held in four bytes: two's complement, the fourth byte holds the
\* sign.
AsInt(b) ==
    b[1] + 256 * b[2] + 65536 * b[3]
         + 16777216 * (IF b[4] >= 128 THEN b[4] - 256 ELSE b[4])

\* What recvfrom(sockfd, &req, sizeof(req), ...) makes of the datagram d: a
\* request keeps its fields, and the bytes of a hostname reply are read as
\* request_id and hops.
AsReceived(d) ==
    IF d.kind = "rep"
    THEN Request(d.src, d.dst, d.len, LE32(Field(d.payload, 1)),
                 AsInt(Field(d.payload, 5)))
    ELSE d

\* The hostname reply of another agent src, whose host name is name, to a
\* request the agent under test relayed: it is addressed to the sender of
\* the relayed copy.
RepliesIn ==
    {Reply(src, "A", name \o <<0>>) : src \in Agents \ {"A"}, name \in HostNames}

\* One iteration of the agent under test for a hostname reply.
AgentReplyIn ==
    \E d \in RepliesIn :
        /\ steps <= MaxFaultSteps
        /\ AgentStep(AsReceived(d))
        /\ lastIn' = [datagram |-> d,
                      sent |-> AgentSends("A", cache["A"], AsReceived(d)),
                      failure |-> "none"]

ReplyInNext == AgentReplyIn \/ AgentErrDeliver

\* The agent under test receives requests and hostname replies.
SpecReplyIn == AgentInit /\ [][ReplyInNext]_vars

\* C33: replies are not requests.  Whenever the agent handled a hostname
\* reply of another agent, whatever the length of the host name, it sent
\* nothing: no reply and no relay.
C33_RepliesAreNotRequests ==
    (Handled /\ lastIn.datagram.kind = "rep") => lastIn.sent = {}

\* The same statement for the host names of fewer than REQ_SIZE - 1 bytes:
\* it holds, the reply is shorter than a request and is discarded.
C33_ShortRepliesIgnored ==
    (Handled /\ lastIn.datagram.kind = "rep" /\ lastIn.datagram.len < REQ_SIZE)
        => (lastIn.sent = {} /\ cache["A"] = lastAdd.before)

\* A hostname reply of REQ_SIZE bytes or more is answered unless its first
\* four bytes are a cached request id, and relayed when its bytes 5 to 8 are
\* an int above 1.
C33_LongRepliesHandled ==
    ( /\ Handled
      /\ lastIn.datagram.kind = "rep"
      /\ lastIn.datagram.len >= REQ_SIZE
      /\ ~IsInCache(lastAdd.before, LE32(Field(lastIn.datagram.payload, 1))) )
    => ( /\ RepliesSent = {Reply("A", lastIn.datagram.src, Hostname("A") \o <<0>>)}
         /\ (RelaysSent # {}) <=>
                (AsInt(Field(lastIn.datagram.payload, 5)) > 1) )

(***************************************************************************)
(* The reply set of the client (main of neighborshow.c)                    *)
(***************************************************************************)
\* The byte values of the model: NUL and the bytes of the host names.
Bytes == {0} \cup {HostByte(a) : a \in Agents}

\* memset(buf, 0, sizeof(buf)); len = recvfrom(sockfd, buf, sizeof(buf), ...):
\* the first MAX_BUF bytes of the payload, the rest of buf stays 0.
Buf(payload) ==
    [i \in 1..MAX_BUF |-> IF i <= Len(payload) THEN payload[i] ELSE 0]

\* The value recvfrom returns for a datagram with this payload.
ClientRecvLen(payload) == Min(Len(payload), MAX_BUF)

\* Number of bytes of the array s before its first NUL among s[i..n]; n - i + 1
\* when there is none.
RECURSIVE NulScan(_, _, _)
NulScan(s, i, n) ==
    IF i > n THEN 0 ELSE IF s[i] = 0 THEN 0 ELSE 1 + NulScan(s, i + 1, n)

\* The C string held by the array s of n bytes (what printf("%s") prints when
\* a NUL is found within the array).
CStr(s, n) == SubSeq(s, 1, NulScan(s, 1, n))

\* strncmp(s1, s2, n) == 0, from byte i on.
RECURSIVE StrncmpEq(_, _, _, _)
StrncmpEq(s1, s2, i, n) ==
    IF i > n THEN TRUE
    ELSE IF s1[i] # s2[i] THEN FALSE
    ELSE IF s1[i] = 0 THEN TRUE
    ELSE StrncmpEq(s1, s2, i + 1, n)

\* strncpy(hosts[host_count], buf, MAX_BUF-1) into a row of the uninitialised
\* array hosts: n bytes are written (the string, then NULs), the remaining
\* byte of the row keeps its indeterminate value g.
Strncpy(buf, n, g) ==
    [i \in 1..MAX_BUF |->
        IF i > n THEN g
        ELSE IF i <= NulScan(buf, 1, MAX_BUF) THEN buf[i] ELSE 0]

\* for (i = 0; i < host_count; i++) if (strncmp(hosts[i], buf, MAX_BUF) == 0)
Found(hs, buf) == \E i \in 1..Len(hs) : StrncmpEq(hs[i], buf, 1, MAX_BUF)

\* A faulty variant of Collect: the duplicate test is left out.
CollectNoDedup(hs, buf, g) ==
    IF Len(hs) < MAX_HOSTS
    THEN Append(hs, Strncpy(buf, MAX_BUF - 1, g[Len(hs) + 1])) ELSE hs

\* A faulty variant of Collect: the new identity is stored in front of the
\* stored ones.
CollectInFront(hs, buf, g) ==
    IF ~Found(hs, buf) /\ Len(hs) < MAX_HOSTS
    THEN <<Strncpy(buf, MAX_BUF - 1, g[Len(hs) + 1])>> \o hs
    ELSE hs

\* A faulty variant of Collect: host_count is not compared with MAX_HOSTS.
CollectNoCap(hs, buf, g) ==
    IF ~Found(hs, buf)
    THEN Append(hs, Strncpy(buf, MAX_BUF - 1, g[Min(Len(hs) + 1, MAX_HOSTS)]))
    ELSE hs

\* if (!found && host_count < MAX_HOSTS) { strncpy(...); host_count++; }
Collect(hs, buf, g) ==
    IF ~Found(hs, buf) /\ Len(hs) < MAX_HOSTS
    THEN Append(hs, Strncpy(buf, MAX_BUF - 1, g[Len(hs) + 1]))
    ELSE hs

\* The body of if (FD_ISSET(...)) for a datagram with this payload:
\* recvfrom, then if (len > 0) the duplicate test and the insertion.
ClientTake(payload) ==
    /\ hosts' = IF ClientRecvLen(payload) > 0
                THEN Collect(hosts, Buf(payload), garbage) ELSE hosts
    /\ received' = IF ClientRecvLen(payload) > 0
                   THEN received \cup {CStr(Buf(payload), MAX_BUF)}
                   ELSE received

\* The identities the client prints: printf(" - %s\n", hosts[i]).
Reported == [i \in 1..Len(hosts) |-> CStr(hosts[i], MAX_BUF)]

\* A faulty variant of CoerceHops: no coercion.
CoerceHopsNone(n) == n

\* hops = atoi(argv[2]); if (hops < 1) hops = 1;
CoerceHops(n) == IF n < 1 THEN 1 ELSE n

\* The characters '0'..'9'.
DigitChars == <<"0", "1", "2", "3", "4", "5", "6", "7", "8", "9">>

IsDigit(ch) == \E k \in 1..Len(DigitChars) : DigitChars[k] = ch

DigitVal(ch) == (CHOOSE k \in 1..Len(DigitChars) : DigitChars[k] = ch) - 1

\* The digits of s from position i on, up to the first character that is not
\* a digit.
RECURSIVE AtoiDigits(_, _, _)
AtoiDigits(s, i, acc) ==
    IF i > Len(s) \/ ~IsDigit(s[i]) THEN acc
    ELSE AtoiDigits(s, i + 1, 10 * acc + DigitVal(s[i]))

\* atoi(argv[2]): an optional sign, then digits; 0 when there is no digit.
Atoi(s) ==
    IF s # <<>> /\ s[1] = "-" THEN 0 - AtoiDigits(s, 2, 0)
    ELSE AtoiDigits(s, 1, 0)

\* The decimal text of a one-digit number n.
Itoa(n) == IF n < 0 THEN <<"-", DigitChars[1 - n]>> ELSE <<DigitChars[n + 1]>>

\* The texts given as hop argument: the numbers of HopValues and a text
\* without a digit.
HopArgs == {Itoa(n) : n \in HopValues} \cup {<<"x">>}

\* exit(EXIT_FAILURE)
EXIT_FAILURE == 1

\* return 0 at the end of main
EXIT_SUCCESS == 0

\* A faulty variant of StartupNext: a failed call is not noticed.
StartupNextIgnore(step, ok) ==
    CASE step = "socket"     -> "setsockopt"
      [] step = "setsockopt" -> "send"
      [] OTHER               -> "select"

\* A faulty variant of StartupNext: the request is sent again and again.
StartupNextResend(step, ok) ==
    IF ~ok THEN "exit"
    ELSE CASE step = "socket"     -> "setsockopt"
           [] step = "setsockopt" -> "send"
           [] OTHER               -> "send"

\* The position of the client after the start-up call step (socket,
\* setsockopt, send) has succeeded or failed: the next call, the collection
\* phase after the send, exit(EXIT_FAILURE) after a failure.
StartupNext(step, ok) ==
    IF ~ok THEN "exit"
    ELSE CASE step = "socket"     -> "setsockopt"
           [] step = "setsockopt" -> "send"
           [] OTHER               -> "select"

\* A faulty variant of ReportStatus: an empty result set is a failure.
ReportStatusNonEmpty(hs) == IF hs = <<>> THEN EXIT_FAILURE ELSE EXIT_SUCCESS

\* The exit status of a client that has printed the result set hs.
ReportStatus(hs) == EXIT_SUCCESS

\* close(sockfd), the printf loop over hosts, return 0: the end of main
\* after the collection loop was left.
ClReport ==
    /\ clPc \in {"done", "error"}
    /\ output' = Append(output, Reported)
    /\ status' = ReportStatus(hosts)
    /\ clPc' = "exit"
    /\ UNCHANGED <<agentVars, netVars, hosts, received, rt, start_time, selStart,
                   rtStart, everIdle, everReady, garbage, argv, clErr, clSends>>

(***************************************************************************)
(* SpecNet: one client round in a network of agents                        *)
(***************************************************************************)
AllLinks == {{n, m} : n, m \in Nodes} \ {{n} : n \in Nodes}

\* The client reaches A, A reaches B, B reaches C.
Chain == {{Client, "A"}, {"A", "B"}, {"B", "C"}}

\* The client reaches A; A, B and C reach one another (a cycle).
Ring == {{Client, "A"}, {"A", "B"}, {"B", "C"}, {"A", "C"}}

Topologies ==
    {l \in SUBSET AllLinks : Cardinality(l) <= MaxLinks} \cup {Chain, Ring}

NetInit ==
    /\ AgentHistoryInit
    /\ net = EmptyBag
    /\ links \in Topologies
    /\ argv \in HopArgs
    /\ round \in [request_id : {0, 1}, hops : {CoerceHops(Atoi(argv))}]
    /\ dropped = 0
    /\ clPc = "socket"
    /\ hosts = <<>>
    /\ received = {}
    /\ rt = 0
    /\ start_time = 0
    /\ selStart = 0
    /\ rtStart = 0
    /\ everIdle = 0
    /\ everReady = 0
    /\ garbage = [i \in 1..MAX_HOSTS |-> 0]
    /\ clErr = "none"
    /\ clSends = 0
    /\ status = -1
    /\ output = <<>>

\* socket(AF_INET, SOCK_DGRAM, 0) of the client succeeds or fails.
NetClientSocket ==
    \E ok \in BOOLEAN :
        /\ clPc = "socket"
        /\ clPc' = StartupNext("socket", ok)
        /\ clErr' = IF ok THEN clErr ELSE "socket"
        /\ status' = IF ok THEN status ELSE EXIT_FAILURE
        /\ UNCHANGED <<agentVars, netVars, hosts, received, rt, start_time,
                       selStart, rtStart, everIdle, everReady, garbage, argv,
                       clSends, output>>

\* setsockopt(SO_BROADCAST) of the client succeeds or fails.
NetClientSetsockopt ==
    \E ok \in BOOLEAN :
        /\ clPc = "setsockopt"
        /\ clPc' = StartupNext("setsockopt", ok)
        /\ clErr' = IF ok THEN clErr ELSE "setsockopt"
        /\ status' = IF ok THEN status ELSE EXIT_FAILURE
        /\ UNCHANGED <<agentVars, netVars, hosts, received, rt, start_time,
                       selStart, rtStart, everIdle, everReady, garbage, argv,
                       clSends, output>>

\* sendto of the client fails: perror, close, exit(EXIT_FAILURE).
NetClientSendFail ==
    /\ clPc = "send"
    /\ clPc' = StartupNext("send", FALSE)
    /\ clErr' = "sendto"
    /\ status' = EXIT_FAILURE
    /\ UNCHANGED <<agentVars, netVars, hosts, received, rt, start_time, selStart,
                   rtStart, everIdle, everReady, garbage, argv, clSends, output>>

\* sendto(sockfd, &req, sizeof(req), 0, &broadcast_addr, ...) of the client.
NetClientSend ==
    /\ clPc = "send"
    /\ net' = net (+)
              SetToBag({Request(Client, a, REQ_SIZE, round.request_id, round.hops) :
                            a \in BroadcastReach(Client)})
    /\ clSends' = clSends + 1
    /\ clPc' = StartupNext("send", TRUE)
    /\ UNCHANGED <<agentVars, links, round, dropped, hosts, received, rt,
                   start_time, selStart, rtStart, everIdle, everReady, garbage,
                   argv, clErr, status, output>>

\* An agent receives a datagram addressed to it and handles it.
NetAgentReceive ==
    \E d \in BagToSet(net) :
        /\ d.dst \in Agents
        /\ agPc[d.dst] = "recv"
        /\ AgentReceive(d.dst, d)
        /\ relayLog' = relayLog \cup RelayRecords(d.dst, d)
        /\ net' = (net (-) SetToBag({d})) (+) SetToBag(AgentSends(d.dst, cache[d.dst], d))
        /\ UNCHANGED <<clock, lastAdd, steps, agentAux, relayVars, textVars,
                       serverVars,
                       links, round, dropped, clientVars>>

\* The collecting client receives a datagram addressed to it.
NetClientReceive ==
    \E d \in BagToSet(net) :
        /\ d.dst = Client
        /\ clPc = "select"
        /\ ClientTake(d.payload)
        /\ net' = net (-) SetToBag({d})
        /\ UNCHANGED <<agentVars, links, round, dropped, clPc, rt, start_time,
                       selStart, rtStart, everIdle, everReady, garbage,
                       clientAux>>

\* The deadline of the collection phase passes: the loop is left.
NetClientClose ==
    /\ clPc = "select"
    /\ clPc' = "done"
    /\ UNCHANGED <<agentVars, netVars, hosts, received, rt, start_time, selStart,
                   rtStart, everIdle, everReady, garbage, clientAux>>

\* The network loses a datagram (also: it reaches a closed socket).
NetDrop ==
    \E d \in BagToSet(net) :
        /\ net' = net (-) SetToBag({d})
        /\ dropped' = 1
        /\ UNCHANGED <<agentVars, links, round, clientVars>>

NetNext ==
    \/ NetClientSocket
    \/ NetClientSetsockopt
    \/ NetClientSend
    \/ NetClientSendFail
    \/ NetAgentReceive
    \/ NetClientReceive
    \/ NetClientClose
    \/ ClReport
    \/ NetDrop

SpecNet == NetInit /\ [][NetNext]_vars

\* Every datagram in flight is eventually received or lost, and the client
\* sends its request.
SpecNetFair ==
    /\ SpecNet
    /\ WF_vars(NetClientSend)
    /\ WF_vars(NetAgentReceive \/ NetClientReceive \/ NetDrop)

(***************************************************************************)
(* Claims about one client round in the network                            *)
(***************************************************************************)
RequestsInFlight == {d \in BagToSet(net) : d.kind = "req"}
RepliesInFlight == {d \in BagToSet(net) : d.kind = "rep"}

\* C2: reply destination.  Every hostname reply an agent sends, also the
\* reply to a request that reached it through another agent's relay, is
\* addressed to the client that created the request.
C2_RepliesGoToClient ==
    \A d \in RepliesInFlight : d.dst = Client

\* What the code does: a reply is addressed to the sender of the datagram it
\* answers, the client for the client's broadcast and the relaying agent for
\* a relayed copy.
C2_RepliesGoToSender ==
    \A d \in RepliesInFlight :
        \/ d.dst = Client
        \/ d.dst \in Agents /\ relays[d.dst][round.request_id] >= 1

\* C3: two-hop discovery.  The client reaches A only, A reaches B, the hop
\* budget is 2 (and the request id is not 0, the case of C1).  Both agents
\* have answered, no datagram was lost and none is in flight when the
\* collection phase has ended: then the client reports the host names of A
\* and of B, each once.
C3_TwoHopDiscovery ==
    ( /\ links = {{Client, "A"}, {"A", "B"}}
      /\ round.hops = 2
      /\ round.request_id # 0
      /\ clPc = "done"
      /\ dropped = 0
      /\ net = EmptyBag
      /\ replies["A"][round.request_id] = 1
      /\ replies["B"][round.request_id] = 1 )
    => ( /\ Len(Reported) = 2
         /\ {Reported[i] : i \in 1..Len(Reported)} = {Hostname("A"), Hostname("B")} )

ClientRequests == {d \in RequestsInFlight : d.src = Client}

\* C15: hop-budget coercion.  For a hop argument whose number is below 1
\* (0, a negative number, a text without digits) the client's request carries
\* the budget 1, for any other argument the number itself; and the argument
\* makes no call of the client fail.
C15_HopCoercion ==
    /\ round.hops = (IF Atoi(argv) < 1 THEN 1 ELSE Atoi(argv))
    /\ \A d \in ClientRequests :
        d.hops = (IF Atoi(argv) < 1 THEN 1 ELSE Atoi(argv))
    /\ (clErr = "none" => status # EXIT_FAILURE)

\* C15 happens: the argument is no number, the request is in flight with the
\* budget 1.
C15_Witness ==
    /\ argv = <<"x">>
    /\ clSends = 1
    /\ \E d \in ClientRequests : d.hops = 1

\* C16: fatal start-up errors.  Once socket, setsockopt or the sendto of the
\* request has failed, the client has exited with the failure status; it has
\* sent nothing, collected nothing and printed no result set.
C16_FatalStartupErrors ==
    clErr \in {"socket", "setsockopt", "sendto"} =>
        /\ clPc = "exit"
        /\ status = EXIT_FAILURE
        /\ clSends = 0
        /\ ClientRequests = {}
        /\ hosts = <<>>
        /\ received = {}
        /\ output = <<>>

\* C16 happens: the sendto of the request failed in a network in which an
\* agent listens.
C16_Witness ==
    /\ clErr = "sendto"
    /\ clPc = "exit"
    /\ BroadcastReach(Client) # {}

\* A step of a client that is in or past its collection phase puts no
\* datagram of the client on the network.
NoSendInCollection ==
    clPc \in {"select", "done", "exit"} =>
        /\ clSends' = clSends
        /\ \A d \in BagToSet(net') :
            d.src = Client => CopiesIn(d, net') <= CopiesIn(d, net)

\* C19: one request per round.  The client never sends more than one
\* request; when it is in or past its collection phase it has sent exactly
\* one, a request of REQ_SIZE bytes to every agent its broadcast reaches; and
\* from the start of the collection phase on it sends nothing.
C19_OneRequestPerRound ==
    /\ [](clSends <= 1)
    /\ []((clPc \in {"select", "done"} \/ (clPc = "exit" /\ clErr = "none"))
            => clSends = 1)
    /\ [](\A d \in ClientRequests :
            /\ d.dst \in BroadcastReach(Client)
            /\ d.len = REQ_SIZE
            /\ d.request_id = round.request_id)
    /\ [][NoSendInCollection]_vars

\* C19 happens: the client has collected a host name and reported it, having
\* sent one request.
C19_Witness ==
    /\ clPc = "exit"
    /\ status = EXIT_SUCCESS
    /\ clSends = 1
    /\ hosts # <<>>

TwoClients == {Client, "cl2"}

\* The request ids generate_request_id can return to the two clients (rand()
\* seeded with time ^ pid: any value, equal ones included) and their hop
\* budgets.
TwoClientRounds ==
    [request_id : {0, 1, 2}, hops : {1, 2}, sent : {FALSE}, hosts : {<<>>}]

\* Both clients are about to send; agent A is alone or has B as neighbour.
TwoClientsInit ==
    /\ AgentHistoryInit
    /\ net = EmptyBag
    /\ links \in {NoLinks, {{"A", "B"}}}
    /\ round \in [TwoClients -> TwoClientRounds]
    /\ dropped = 0
    /\ ClientIdle

\* sendto(sockfd, &req, sizeof(req), 0, &broadcast_addr, ...) of the client
\* c: the broadcast reaches agent A.
TwoClientSend ==
    \E c \in TwoClients :
        /\ ~round[c].sent
        /\ net' = net (+) SetToBag({Request(c, "A", REQ_SIZE, round[c].request_id,
                                            round[c].hops)})
        /\ round' = [round EXCEPT ![c].sent = TRUE]
        /\ UNCHANGED <<agentVars, links, dropped, clientVars>>

\* The collecting client c receives a datagram addressed to it: recvfrom,
\* the duplicate test and the insertion into its own hosts.
TwoClientReceive ==
    \E d \in BagToSet(net) :
        /\ d.dst \in TwoClients
        /\ round[d.dst].sent
        /\ round' = [round EXCEPT ![d.dst].hosts =
                        IF ClientRecvLen(d.payload) > 0
                        THEN Collect(@, Buf(d.payload), garbage) ELSE @]
        /\ net' = net (-) SetToBag({d})
        /\ UNCHANGED <<agentVars, links, dropped, clientVars>>

TwoClientsNext == TwoClientSend \/ NetAgentReceive \/ TwoClientReceive

SpecTwoClients == TwoClientsInit /\ [][TwoClientsNext]_vars

\* Both clients have sent their request, and every datagram was received.
BothRoundsDelivered ==
    /\ \A c \in TwoClients : round[c].sent
    /\ net = EmptyBag

\* The host names the client c has collected.
CollectedBy(c) ==
    {CStr(round[c].hosts[i], MAX_BUF) : i \in 1..Len(round[c].hosts)}

\* C32: independent clients.  When the requests of both clients have reached
\* agent A and every datagram sent since was received, each of the two
\* clients has received the host name of A, whatever request ids the two
\* clients chose, equal ones included (the request id 0, which no agent
\* answers, is the case of C1 and is left aside).
C32_IndependentClients ==
    ( /\ BothRoundsDelivered
      /\ \A c \in TwoClients : round[c].request_id # 0 )
    => \A c \in TwoClients : Hostname("A") \in CollectedBy(c)

\* The same statement for two clients whose request ids differ and are not
\* 0 (the case of C1): it holds.
C32_DistinctIds ==
    ( /\ BothRoundsDelivered
      /\ round[Client].request_id # round["cl2"].request_id
      /\ \A c \in TwoClients : round[c].request_id # 0 )
    => \A c \in TwoClients : Hostname("A") \in CollectedBy(c)

\* What the code does for two clients with the same request id: the agent
\* answers one request only, and one of the clients collects nothing.
C32_SameIdOneReply ==
    ( /\ BothRoundsDelivered
      /\ round[Client].request_id = round["cl2"].request_id )
    => ( /\ replies["A"][round[Client].request_id] <= 1
         /\ \E c \in TwoClients : CollectedBy(c) = {} )

(***************************************************************************)
(* SpecClient: the timed collection loop of the client                     *)
(***************************************************************************)
\* time(NULL): whole seconds of the real time rt.
Time(t) == t \div TicksPerSec

\* Real time stops advancing here (the loop has ended well before).
MaxRt == (RESPONSE_WAIT_TIME + 2 * SELECT_TIMEOUT + 1) * TicksPerSec

\* A faulty variant of DeadlinePassed: the deadline is never seen.
DeadlinePassedNever(now, start) == FALSE

\* A faulty variant of DeadlinePassed: >= for >.
DeadlinePassedGeq(now, start) == now - start >= RESPONSE_WAIT_TIME

\* if (time(NULL) - start_time > RESPONSE_WAIT_TIME)
DeadlinePassed(now, start) == now - start > RESPONSE_WAIT_TIME

\* A payload that fills buf without a NUL.
FullPayload == [i \in 1..MAX_BUF |-> HostByte("A")]

\* The datagrams that reach the client's socket: an empty datagram, an empty
\* string, host names with and without their NUL, a payload filling the
\* buffer and a longer one.
ReplyPayloads ==
    {<<>>, <<0>>, Hostname("A") \o <<0>>, Hostname("B") \o <<0>>, Hostname("A"),
     FullPayload, FullPayload \o <<HostByte("B")>>}

\* The indeterminate bytes of the uninitialised array hosts: NUL or not.
GarbageBytes == {0, HostByte("A")}

\* The state after time_t start_time = time(NULL): the request was sent at
\* any point of the current second (the client was started without a hop
\* argument).
ClientInit ==
    /\ AgentHistoryInit
    /\ net = EmptyBag
    /\ links = NoLinks
    /\ round = NoRound
    /\ dropped = 0
    /\ clPc = "check"
    /\ hosts = <<>>
    /\ received = {}
    /\ rt \in 0..(TicksPerSec - 1)
    /\ start_time = Time(rt)
    /\ selStart = rt
    /\ rtStart = rt
    /\ everIdle = 0
    /\ everReady = 0
    /\ garbage \in [1..MAX_HOSTS -> GarbageBytes]
    /\ argv = <<>>
    /\ clErr = "none"
    /\ clSends = 1
    /\ status = -1
    /\ output = <<>>

\* The top of the loop with the deadline passed: break.
ClDeadline ==
    /\ clPc = "check"
    /\ DeadlinePassed(Time(rt), start_time)
    /\ clPc' = "done"
    /\ UNCHANGED <<agentVars, netVars, hosts, received, rt, start_time, selStart,
                   rtStart, everIdle, everReady, garbage, clientAux>>

\* The top of the loop before the deadline: select() is called.
ClSelect ==
    /\ clPc = "check"
    /\ ~DeadlinePassed(Time(rt), start_time)
    /\ clPc' = "select"
    /\ selStart' = rt
    /\ UNCHANGED <<agentVars, netVars, hosts, received, rt, start_time, rtStart,
                   everIdle, everReady, garbage, clientAux>>

\* select() returns > 0 before its timeout: a datagram is read and handled.
ClSelectReady ==
    \E payload \in ReplyPayloads :
        /\ clPc = "select"
        /\ rt - selStart < SELECT_TIMEOUT * TicksPerSec
        /\ ClientTake(payload)
        /\ clPc' = "check"
        /\ everReady' = 1
        /\ UNCHANGED <<agentVars, netVars, rt, start_time, selStart, rtStart,
                       everIdle, garbage, clientAux>>

\* select() returns > 0 and recvfrom fails: len < 0, nothing is stored.
ClRecvFail ==
    /\ clPc = "select"
    /\ rt - selStart < SELECT_TIMEOUT * TicksPerSec
    /\ clPc' = "check"
    /\ everReady' = 1
    /\ clErr' = "recvfrom"
    /\ UNCHANGED <<agentVars, netVars, hosts, received, rt, start_time, selStart,
                   rtStart, everIdle, garbage, argv, clSends, status, output>>

\* select() returns 0 after its timeout: continue.
ClSelectTimeout ==
    /\ clPc = "select"
    /\ rt - selStart = SELECT_TIMEOUT * TicksPerSec
    /\ clPc' = "check"
    /\ everIdle' = 1
    /\ UNCHANGED <<agentVars, netVars, hosts, received, rt, start_time, selStart,
                   rtStart, everReady, garbage, clientAux>>

\* select() returns < 0: break.
ClSelectError ==
    /\ clPc = "select"
    /\ clPc' = "error"
    /\ clErr' = "select"
    /\ UNCHANGED <<agentVars, netVars, hosts, received, rt, start_time, selStart,
                   rtStart, everIdle, everReady, garbage, argv, clSends, status,
                   output>>

\* Real time advances while the client is blocked in select(); the other
\* steps of the loop take no time.
ClTick ==
    /\ clPc = "select"
    /\ rt - selStart < SELECT_TIMEOUT * TicksPerSec
    /\ rt < MaxRt
    /\ rt' = rt + 1
    /\ UNCHANGED <<agentVars, netVars, clPc, hosts, received, start_time, selStart,
                   rtStart, everIdle, everReady, garbage, clientAux>>

ClientNext ==
    \/ ClDeadline
    \/ ClSelect
    \/ ClSelectReady
    \/ ClRecvFail
    \/ ClSelectTimeout
    \/ ClSelectError
    \/ ClTick
    \/ ClReport

SpecClient == ClientInit /\ [][ClientNext]_vars

\* The client takes its own steps, and real time does not stop while the
\* client keeps calling select().
SpecClientFair ==
    /\ SpecClient
    /\ WF_vars(ClDeadline \/ ClSelect \/ ClSelectTimeout)
    /\ SF_vars(ClTick)

\* The collection loop has been left (by the deadline or by a select error).
ClientFinished == clPc \in {"done", "error", "exit"}

(***************************************************************************)
(* Claims about the client                                                 *)
(***************************************************************************)
\* C8: client dedup.  When the collection phase has ended the reported list
\* holds no identity twice and holds every identity that was received.
C8_ClientDedup ==
    ClientFinished =>
        /\ \A i, j \in 1..Len(Reported) : i # j => Reported[i] # Reported[j]
        /\ {Reported[i] : i \in 1..Len(Reported)} = received

\* The two halves of C8.
C8_NoIdentityTwice ==
    ClientFinished =>
        \A i, j \in 1..Len(Reported) : i # j => Reported[i] # Reported[j]

C8_NoIdentityMissing ==
    ClientFinished => received \subseteq {Reported[i] : i \in 1..Len(Reported)}

\* C8 for the host names the agents send, while the set is not full.
C8_HostnamesWithinCapacity ==
    ( /\ ClientFinished
      /\ received \subseteq {Hostname(a) : a \in Agents}
      /\ Cardinality(received) <= MAX_HOSTS )
    => ( /\ \A i, j \in 1..Len(Reported) : i # j => Reported[i] # Reported[j]
         /\ {Reported[i] : i \in 1..Len(Reported)} = received )

\* C9: timeout bound.  The collection loop never runs, and is never left, later
\* than RESPONSE_WAIT_TIME plus one select timeout after the collection phase
\* started.
C9_TimeoutBound ==
    rt - rtStart <= (RESPONSE_WAIT_TIME + SELECT_TIMEOUT) * TicksPerSec

\* With no datagram at all every select() runs its full second from the
\* start of the collection phase on, and the bound of C9 is met exactly.
C9_BoundWithoutArrivals ==
    everReady = 0 =>
        rt - rtStart <= (RESPONSE_WAIT_TIME + SELECT_TIMEOUT) * TicksPerSec

\* What the code guarantees: one more second, not reached.
C9_TimeoutBoundCode ==
    rt - rtStart < (RESPONSE_WAIT_TIME + 2 * SELECT_TIMEOUT) * TicksPerSec

\* C10: termination under load.  The collection loop is always left in the
\* end, whatever arrives and however often a datagram is ready, and the loop
\* is left at its first test after the deadline has passed on the clock.
C10_TerminatesUnderLoad ==
    /\ <>ClientFinished
    /\ [][(clPc = "check" /\ Time(rt) - start_time > RESPONSE_WAIT_TIME)
            => clPc' = "done"]_vars

\* C10 happens: the loop was left by the deadline although no select() ever
\* timed out (a datagram was ready on every call) and the result set is full.
C10_Witness ==
    /\ clPc = "done"
    /\ everIdle = 0
    /\ Len(hosts) = MAX_HOSTS
    /\ Time(rt) - start_time > RESPONSE_WAIT_TIME

\* C17: partial collection.  Once select or recvfrom has failed, the
\* collection loop has been left; and when the client has then exited, its
\* status is the normal one and it has printed the identities gathered.
C17_PartialCollection ==
    clErr \in {"select", "recvfrom"} =>
        /\ clPc \in {"error", "exit"}
        /\ clPc = "exit" => (status = EXIT_SUCCESS /\ output = <<Reported>>)

\* The same statement for a failing select alone: it holds.
C17_SelectErrorEndsCollection ==
    clErr = "select" =>
        /\ clPc \in {"error", "exit"}
        /\ clPc = "exit" => (status = EXIT_SUCCESS /\ output = <<Reported>>)

\* C18: an empty result is not an error.  When the client has exited and no
\* datagram was ever ready during the collection phase, it has printed the
\* empty result set and its status is 0; and 0 is the status of every client
\* that has printed a result set, an empty one or not.
C18_EmptyResultNotAnError ==
    /\ (clPc = "exit" /\ everReady = 0)
        => (output = << <<>> >> /\ status = 0)
    /\ (clPc = "exit" /\ output # <<>>) => status = 0

\* C18 happens: the whole window passed without a datagram, the loop was
\* left by the deadline and the client has exited.
C18_Witness ==
    /\ clPc = "exit"
    /\ everReady = 0
    /\ clErr = "none"
    /\ Time(rt) - start_time > RESPONSE_WAIT_TIME
    /\ output = << <<>> >>

\* A step that takes place more than RESPONSE_WAIT_TIME after the collection
\* phase started leaves the result set as it is.
NoLateCollection ==
    rt - rtStart > RESPONSE_WAIT_TIME * TicksPerSec => hosts' = hosts

\* C24: no collection after the deadline.  Once more than RESPONSE_WAIT_TIME
\* has elapsed since the collection phase started, no identity is added to
\* the result set.
C24_NoCollectionAfterDeadline == [][NoLateCollection]_vars

\* The result set stays as it is once the loop has been left, and once
\* RESPONSE_WAIT_TIME + 2 * SELECT_TIMEOUT has elapsed.
NoCollectionAfterLoop ==
    (\/ ClientFinished
     \/ rt - rtStart >= (RESPONSE_WAIT_TIME + 2 * SELECT_TIMEOUT) * TicksPerSec)
        => hosts' = hosts

\* What the code guarantees for C24.
C24_NoCollectionAfterLoop == [][NoCollectionAfterLoop]_vars

\* The rows of hosts before a step are the first rows after it, and at most
\* one row is added.
RowsKept ==
    /\ Len(hosts') \in {Len(hosts), Len(hosts) + 1}
    /\ SubSeq(hosts', 1, Len(hosts)) = hosts

\* A row added by a step lies after every stored row and holds the first
\* MAX_BUF-1 bytes of an identity sighted in this very step.
RowAddedAtSighting ==
    Len(hosts') = Len(hosts) + 1 =>
        \E payload \in ReplyPayloads :
            /\ ClientRecvLen(payload) > 0
            /\ received' = received \cup {CStr(Buf(payload), MAX_BUF)}
            /\ CStr(hosts'[Len(hosts')], MAX_BUF - 1)
                   = CStr(Buf(payload), MAX_BUF - 1)

\* The sighting of an identity that is stored already leaves the rows alone.
ResultOrderStep ==
    /\ RowsKept
    /\ RowAddedAtSighting
    /\ ( /\ received' = received
         /\ \A x \in received : \E i \in 1..Len(hosts) : Reported[i] = x )
       => hosts' = hosts

\* C31: result order.  The rows of the result set are in the order of the
\* sightings that stored them: every step keeps the stored rows where they
\* are, a row is only added behind them and at the sighting of its identity,
\* and a later duplicate of a stored identity neither moves nor replaces a row.
\* What is printed is the stored rows in their order.
C31_ResultOrder == [][ResultOrderStep]_vars

\* C31 happens: two host names were stored and printed in the order of their
\* sighting, which is not the order of their bytes, and the loop had time for
\* further sightings.
C31_Witness ==
    /\ clPc = "exit"
    /\ Reported = <<Hostname("B"), Hostname("A")>>
    /\ output = <<Reported>>
    /\ everReady = 1

\* The collection loop is running: the client is at the deadline test or
\* in select().
InLoop == clPc \in {"check", "select"}

\* A step taken with a full result set: the rows stay as they are, and the
\* step leaves the loop only when the deadline test finds the deadline passed
\* (or select() has failed).
FullStep ==
    Len(hosts) = MAX_HOSTS =>
        /\ hosts' = hosts
        /\ (InLoop /\ clPc' \notin {"check", "select"}) =>
              \/ clPc = "check" /\ DeadlinePassed(Time(rt), start_time)
              \/ clPc = "select" /\ clErr' = "select"

\* C35: client result capacity.  The result set never holds more than
\* MAX_HOSTS rows; and once it holds MAX_HOSTS rows, every step, the receipt
\* of a new identity included, leaves the rows as they are and leaves the
\* loop only by the deadline test (or by a failure of select).
C35_ResultCapacity ==
    /\ [](Len(hosts) <= MAX_HOSTS)
    /\ [][FullStep]_vars

\* C35 happens: with a full result set a further identity was received and
\* dropped, and the client is back at the deadline test with the deadline
\* not passed.
C35_Witness ==
    /\ Len(hosts) = MAX_HOSTS
    /\ Cardinality(received) = MAX_HOSTS + 1
    /\ \E x \in received : \A i \in 1..Len(hosts) : Reported[i] # x
    /\ clPc = "check"
    /\ ~DeadlinePassed(Time(rt), start_time)

(***************************************************************************)
(* SpecRelay: one relay on a host with any interface table                 *)
(***************************************************************************)
RelayInit ==
    /\ BinaryAgentInit
    /\ TextAgentOff
    /\ ServerOff
    /\ relayCall \in [ifaces : IfTables, out : {NoRelayCall}]
    /\ net = EmptyBag
    /\ links = NoLinks
    /\ round = NoRound
    /\ dropped = 0
    /\ ClientIdle

\* The requests handed to the relay branch of main.
RelayInputs ==
    {Request(Client, "A", REQ_SIZE, id, hops) : id \in {1, 2}, hops \in AgentHops}

\* if (req.hops > 1) { req.hops--; rebroadcast_request(sockfd, &req); } for a
\* request that arrived on the interface arrived; f is the failing call of
\* rebroadcast_request ("none": setsockopt and SIOCGIFCONF succeed), failing
\* the interfaces on which sendto fails.
RelayCall ==
    \E d \in RelayInputs, f \in {"none", "setsockopt", "ioctl"} :
        \E failing \in SUBSET (1..Len(relayCall.ifaces)),
           arrived \in 1..Len(relayCall.ifaces) :
            LET req == [request_id |-> d.request_id,
                        hops |-> RelayedHops(d.hops)]
            IN  /\ relayCall.out.calls = 0
                /\ ShouldRelay(d.hops)
                /\ relayCall' = [relayCall EXCEPT !.out =
                                [calls |-> 1, arrived |-> arrived, failure |-> f,
                                 req |-> req,
                                 sends |-> RebroadcastRequest(relayCall.ifaces, req,
                                                              f, failing)]]
                /\ UNCHANGED <<cache, clock, order, evicted, delivered, replies,
                               relays, lastAdd, relayLog, steps, agentAux,
                               textVars, serverVars, netVars, clientVars>>

SpecRelay == RelayInit /\ [][RelayCall]_vars

\* The interface is up, broadcast-capable and has a broadcast address.
Eligible(k) ==
    /\ "IFF_UP" \in k.flags
    /\ "IFF_BROADCAST" \in k.flags
    /\ k.brdOk

\* The sendto calls of the last relay on the interface i.
CopiesOn(i) ==
    {k \in 1..Len(relayCall.out.sends) : relayCall.out.sends[k].ifc = i}

\* C23: relay targets.  A relay whose setsockopt and SIOCGIFCONF succeed
\* makes exactly one sendto of the decremented request for each local
\* interface that is up, broadcast-capable and has a broadcast address
\* (the arrival interface included, whatever sendto returns on the others)
\* and none for any other interface.
C23_RelayTargets ==
    (relayCall.out.calls = 1 /\ relayCall.out.failure = "none") =>
        \A i \in 1..Len(relayCall.ifaces) :
            /\ Cardinality(CopiesOn(i)) =
                   IF Eligible(relayCall.ifaces[i]) THEN 1 ELSE 0
            /\ \A k \in CopiesOn(i) :
                   relayCall.out.sends[k].req = relayCall.out.req

\* What the code guarantees: the statement for the first IFR_MAX interfaces
\* (those SIOCGIFCONF lists into ifr), and no copy for any further one.
C23_ListedInterfaces ==
    (relayCall.out.calls = 1 /\ relayCall.out.failure = "none") =>
        \A i \in 1..Len(relayCall.ifaces) :
            /\ Cardinality(CopiesOn(i)) =
                   IF Eligible(relayCall.ifaces[i]) /\ i <= IFR_MAX THEN 1
                   ELSE 0
            /\ \A k \in CopiesOn(i) :
                   relayCall.out.sends[k].req = relayCall.out.req

(***************************************************************************)
(* SpecTextAgent: the text-format agent is handed arbitrary datagrams      *)
(***************************************************************************)
\* Iterations of the text-format agent under test.
MaxTextSteps == MAX_SEEN + 2

\* recvfrom returns a request with any message id, hop value and origin, a
\* datagram with another tag, or a request that lacks its origin.
TextInputs ==
    {TextRequest(Client, "NEIGHBOR_DISCOVERY", 4, id, hop, o) :
        id \in MsgIds, hop \in TextHops, o \in TextOrigins}
    \cup {TextRequest(Client, "OTHER", 4, 1, 2, <<"a">>),
          TextRequest(Client, "NEIGHBOR_DISCOVERY", 3, 1, 2, <<>>)}

\* Has the iteration for m a call f to fail at?
TextFailureApplies(sn, m, gw, f) ==
    CASE f = "recvfrom" -> m = NoText
      [] f = "reply"    -> m # NoText /\ TextFirstSeen(sn, m)
      [] OTHER          -> m # NoText /\ TextFirstSeen(sn, m)
                             /\ Sscanf(m).hop > 1 /\ gw

\* The number of sendto calls of this kind in sends that succeeded.
SentOk(sends, kind) ==
    Cardinality({k \in 1..Len(sends) : sends[k].kind = kind /\ sends[k].ok})

\* One iteration of while (1) of the text-format agent: recvfrom returns m
\* (fails for f = "recvfrom"), gw tells whether get_default_gateway finds a
\* gateway, f is the failing call ("none": every call succeeds).
TextIteration(m, gw, f) ==
    LET fresh == f # "recvfrom" /\ TextFirstSeen(tx.seen, m)
        p     == Sscanf(m)
        sends == IF f = "recvfrom" THEN <<>> ELSE TextSends(tx.seen, m, gw, f)
    IN  /\ tx' = [seen |-> IF fresh THEN MarkAsSeen(tx.seen, p.origin, p.msg_id)
                           ELSE tx.seen,
                  count |-> IF fresh
                            THEN [tx.count EXCEPT ![<<p.origin, p.msg_id>>] =
                                    [replies |-> @.replies + SentOk(sends, "reply"),
                                     relays |-> @.relays + SentOk(sends, "relay")]]
                            ELSE tx.count,
                  last |-> [msg |-> m, gateway |-> gw, failure |-> f,
                            sent |-> sends, fresh |-> fresh],
                  pc |-> IF f = "none" THEN "recv" ELSE TextAfterFailure(f),
                  steps |-> tx.steps + 1]
        /\ UNCHANGED <<cache, clock, order, evicted, delivered, replies, relays,
                       lastAdd, relayLog, steps, agentAux, relayVars, serverVars,
                       netVars, clientVars>>

\* An iteration in which every call succeeds.
TextReceive ==
    \E m \in TextInputs, gw \in BOOLEAN :
        /\ tx.pc = "recv"
        /\ tx.steps < MaxTextSteps
        /\ TextIteration(m, gw, "none")

\* One of the first MaxFaultSteps iterations has a failing call.
TextFail ==
    \E m \in TextInputs \cup {NoText}, gw \in BOOLEAN, f \in TextFailures :
        /\ tx.pc = "recv"
        /\ tx.steps < MaxFaultSteps
        /\ TextFailureApplies(tx.seen, m, gw, f)
        /\ TextIteration(m, gw, f)

TextAgentNext == TextReceive \/ TextFail

TextAgentSpecInit ==
    /\ BinaryAgentInit
    /\ TextAgentInit
    /\ RelayOff
    /\ ServerOff
    /\ net = EmptyBag
    /\ links = NoLinks
    /\ round = NoRound
    /\ dropped = 0
    /\ ClientIdle

SpecTextAgent == TextAgentSpecInit /\ [][TextAgentNext]_vars

\* C28: duplicate suppression in the text-format agent.  Whatever was
\* received before, the agent has sent at most one reply and at most one
\* relay copy for each (origin, message_id) pair.
C28_TextDuplicateSuppression ==
    \A p \in TextPairs : tx.count[p].replies <= 1 /\ tx.count[p].relays <= 1

\* What the code guarantees: the statement while fewer than MAX_SEEN pairs
\* were answered.
C28_WhileSeenListNotFull ==
    Len(tx.seen) < MAX_SEEN =>
        \A p \in TextPairs : tx.count[p].replies <= 1 /\ tx.count[p].relays <= 1

\* C29: the text-format agent is never stopped by a transport error.  After
\* an iteration with a failed recvfrom or a failed send the agent is in its
\* receive loop.
C29_TextSurvivesTransportErrors ==
    tx.last.failure # "none" => tx.pc = "recv"

\* What the code guarantees: the statement for the failed sends.
C29_TextSurvivesSendErrors ==
    tx.last.failure \in {"reply", "socket", "relay"} => tx.pc = "recv"

\* C30: relay of the text-format agent.  In an iteration for a first-seen
\* request in which every call succeeds the agent first replies with its
\* hostname to the sender; with hop > 1 and a default gateway it then sends
\* exactly one copy to the gateway on port AGENT_PORT, with the message id
\* and the origin of the request and hop - 1; otherwise it sends no copy.
C30_TextRelay ==
    (tx.last.fresh /\ tx.last.failure = "none") =>
        LET m == tx.last.msg
            s == tx.last.sent
        IN  /\ Len(s) >= 1
            /\ s[1].kind = "reply" /\ s[1].dst = m.src /\ s[1].body = Hostname("A")
            /\ IF m.hop > 1 /\ tx.last.gateway
               THEN /\ Len(s) = 2
                    /\ s[2].kind = "relay"
                    /\ s[2].dst = "gateway"
                    /\ s[2].port = AGENT_PORT
                    /\ s[2].body.message_id = m.message_id
                    /\ s[2].body.origin = m.origin
                    /\ s[2].body.hop = m.hop - 1
               ELSE Len(s) = 1

\* What the code guarantees: the statement with the origin cut after
\* ORIGIN_MAX characters.
C30_TextRelayCutOrigin ==
    (tx.last.fresh /\ tx.last.failure = "none") =>
        LET m == tx.last.msg
            s == tx.last.sent
        IN  /\ Len(s) >= 1
            /\ s[1].kind = "reply" /\ s[1].dst = m.src /\ s[1].body = Hostname("A")
            /\ IF m.hop > 1 /\ tx.last.gateway
               THEN /\ Len(s) = 2
                    /\ s[2].kind = "relay"
                    /\ s[2].dst = "gateway"
                    /\ s[2].port = AGENT_PORT
                    /\ s[2].body.message_id = m.message_id
                    /\ s[2].body.origin = TakePrefix(m.origin, ORIGIN_MAX)
                    /\ s[2].body.hop = m.hop - 1
               ELSE Len(s) = 1

(***************************************************************************)
(* SpecTextClient: the text-format client (neighborshow with text requests)*)
(***************************************************************************)
\* tv.tv_sec = 2 of SO_RCVTIMEO
RCV_TIMEOUT == 2

\* #define MAX_NEIGHBORS 1000
MAX_NEIGHBORS == 2

\* sizeof(neighbors[0]) for char neighbors[MAX_NEIGHBORS][256]
NEIGHBOR_LEN == 2

\* recvfrom(sockfd, buffer, sizeof(buffer)-1, ...); buffer[recvlen] = '\0':
\* the C string in buffer (BUFFER_SIZE has the value of MAX_BUF).
TextBuffer(payload) ==
    LET b == TakePrefix(payload, MAX_BUF - 1)
    IN  SubSeq(b, 1, NulScan(b, 1, Len(b)))

\* The strcmp loop over neighbors, then if (!known && neighbor_count <
\* MAX_NEIGHBORS) { strncpy(..., sizeof(neighbors[0]) - 1); ... = '\0'; }
TextCollect(ns, str) ==
    IF ~(\E i \in 1..Len(ns) : ns[i] = str) /\ Len(ns) < MAX_NEIGHBORS
    THEN Append(ns, TakePrefix(str, NEIGHBOR_LEN - 1))
    ELSE ns

\* hop = atoi(argv[++i]); if (hop < 1) { fprintf(stderr, ...); return 1; }
TextHopAccepted(hop) == hop >= 1

\* The calls between the arguments and the request, in order.
TextStartup == <<"socket", "setsockopt", "bind", "rcvtimeo", "send">>

\* The call after the start-up call step.
TextStartupNext(step) ==
    TextStartup[(CHOOSE k \in 1..Len(TextStartup) : TextStartup[k] = step) + 1]

\* The datagrams that reach the client's socket: an empty one, host names,
\* and a name that does not fit a row of neighbors.
TextPayloads ==
    {<<>>, Hostname("A"), Hostname("B"),
     [i \in 1..NEIGHBOR_LEN |-> HostByte("A")]}

\* The client is started with or without -hop <text>.
TextClientInit ==
    /\ AgentHistoryInit
    /\ net = EmptyBag
    /\ links = NoLinks
    /\ round \in [request_id : {0, 1}, hops : {1}]
    /\ dropped = 0
    /\ clPc = "args"
    /\ hosts = <<>>
    /\ received = {}
    /\ rt = 0
    /\ start_time = 0
    /\ selStart = 0
    /\ rtStart = 0
    /\ everIdle = 0
    /\ everReady = 0
    /\ garbage = [i \in 1..MAX_HOSTS |-> 0]
    /\ argv \in HopArgs \cup {<<>>}
    /\ clErr = "none"
    /\ clSends = 0
    /\ status = -1
    /\ output = <<>>

\* The argument loop: int hop = 1 without -hop; a value below 1 ends the
\* program with status 1.
TcArgs ==
    LET hop == IF argv = <<>> THEN 1 ELSE Atoi(argv)
    IN  /\ clPc = "args"
        /\ IF TextHopAccepted(hop)
           THEN /\ round' = [round EXCEPT !.hops = hop]
                /\ clPc' = "socket"
                /\ UNCHANGED <<clErr, status>>
           ELSE /\ clPc' = "exit"
                /\ clErr' = "hop"
                /\ status' = 1
                /\ UNCHANGED round
        /\ UNCHANGED <<agentVars, net, links, dropped, hosts, received, rt,
                       start_time, selStart, rtStart, everIdle, everReady,
                       garbage, argv, clSends, output>>

\* socket, setsockopt(SO_BROADCAST), bind, setsockopt(SO_RCVTIMEO): each
\* succeeds, or fails and ends the program with status 1.
TcStartup ==
    \E ok \in BOOLEAN :
        /\ clPc \in {"socket", "setsockopt", "bind", "rcvtimeo"}
        /\ clPc' = IF ok THEN TextStartupNext(clPc) ELSE "exit"
        /\ clErr' = IF ok THEN clErr ELSE clPc
        /\ status' = IF ok THEN status ELSE 1
        /\ UNCHANGED <<agentVars, netVars, hosts, received, rt, start_time,
                       selStart, rtStart, everIdle, everReady, garbage, argv,
                       clSends, output>>

\* sendto of the request: the first recvfrom is called next, or the program
\* ends with status 1.
TcSend ==
    \E ok \in BOOLEAN :
        /\ clPc = "send"
        /\ clPc' = IF ok THEN "recv" ELSE "exit"
        /\ clSends' = IF ok THEN clSends + 1 ELSE clSends
        /\ clErr' = IF ok THEN clErr ELSE "sendto"
        /\ status' = IF ok THEN status ELSE 1
        /\ UNCHANGED <<agentVars, netVars, hosts, received, rt, start_time,
                       selStart, rtStart, everIdle, everReady, garbage, argv,
                       output>>

\* recvfrom returns a datagram before its timeout: the name is looked up and
\* stored and recvfrom is called again; rt is the time the pending recvfrom
\* has been waiting.
TcRecv ==
    \E payload \in TextPayloads :
        /\ clPc = "recv"
        /\ rt < RCV_TIMEOUT * TicksPerSec
        /\ hosts' = TextCollect(hosts, TextBuffer(payload))
        /\ received' = received \cup {TextBuffer(payload)}
        /\ rt' = 0
        /\ everReady' = 1
        /\ UNCHANGED <<agentVars, netVars, clPc, start_time, selStart, rtStart,
                       everIdle, garbage, clientAux>>

\* recvfrom returns -1 after RCV_TIMEOUT without a datagram: break.
TcRecvTimeout ==
    /\ clPc = "recv"
    /\ rt = RCV_TIMEOUT * TicksPerSec
    /\ clPc' = "done"
    /\ everIdle' = 1
    /\ UNCHANGED <<agentVars, netVars, hosts, received, rt, start_time, selStart,
                   rtStart, everReady, garbage, clientAux>>

\* recvfrom returns -1 for another reason: break.
TcRecvError ==
    /\ clPc = "recv"
    /\ clPc' = "done"
    /\ clErr' = "recvfrom"
    /\ UNCHANGED <<agentVars, netVars, hosts, received, rt, start_time, selStart,
                   rtStart, everIdle, everReady, garbage, argv, clSends, status,
                   output>>

\* Time passes while the client is blocked in recvfrom.
TcTick ==
    /\ clPc = "recv"
    /\ rt < RCV_TIMEOUT * TicksPerSec
    /\ rt' = rt + 1
    /\ UNCHANGED <<agentVars, netVars, clPc, hosts, received, start_time,
                   selStart, rtStart, everIdle, everReady, garbage, clientAux>>

\* close(sockfd), the printf loop over neighbors, return 0.
TcReport ==
    /\ clPc = "done"
    /\ output' = Append(output, hosts)
    /\ status' = 0
    /\ clPc' = "exit"
    /\ UNCHANGED <<agentVars, netVars, hosts, received, rt, start_time, selStart,
                   rtStart, everIdle, everReady, garbage, argv, clErr, clSends>>

TextClientNext ==
    \/ TcArgs
    \/ TcStartup
    \/ TcSend
    \/ TcRecv
    \/ TcRecvTimeout
    \/ TcRecvError
    \/ TcTick
    \/ TcReport

SpecTextClient == TextClientInit /\ [][TextClientNext]_vars

\* The client takes its own steps, recvfrom times out when its time is up,
\* and time does not stop while the client is blocked in recvfrom.
SpecTextClientFair ==
    /\ SpecTextClient
    /\ WF_vars(TcArgs \/ TcStartup \/ TcSend \/ TcReport)
    /\ WF_vars(TcRecvTimeout)
    /\ SF_vars(TcTick)

\* C26: bounded collection in the text-format client.  Once the request is
\* sent the collection phase ends, whatever the arrival pattern of replies.
C26_TextCollectionEnds == (clPc = "recv") ~> (clPc = "exit")

\* What the code guarantees: a recvfrom never waits longer than RCV_TIMEOUT,
\* and the collection phase ends when a recvfrom has waited that long.
C26_EndsAfterSilence ==
    (clPc = "recv" /\ rt = RCV_TIMEOUT * TicksPerSec) ~> (clPc = "exit")

\* C27: hop coercion in the text-format client.  Started with -hop n, n < 1,
\* the client goes on with a budget of 1: it does not end before its request
\* is sent unless a start-up call fails.
C27_TextHopCoercion ==
    (argv # <<>> /\ Atoi(argv) < 1 /\ clPc # "args") =>
        /\ round.hops = 1
        /\ (clPc = "exit" /\ clSends = 0) => clErr \in {"socket", "setsockopt",
                                                        "bind", "rcvtimeo",
                                                        "sendto"}

\* What the code guarantees: with n < 1 the client ends with status 1 and
\* sends nothing.
C27_TextHopRejected ==
    (argv # <<>> /\ Atoi(argv) < 1 /\ clPc # "args") =>
        (clPc = "exit" /\ status = 1 /\ clSends = 0 /\ output = <<>>)


(***************************************************************************)
(* The interface server (ifnetshowserv.c): count_prefix_len                *)
(***************************************************************************)
\* A faulty variant of BitsOf: only the lowest bit is looked at.
BitsOfLowest(c) == c % 2

\* unsigned char c = buf[i]; while (c) { prefix_len += (c & 1); c >>= 1; }
RECURSIVE BitsOf(_)
BitsOf(c) == IF c = 0 THEN 0 ELSE (c % 2) + BitsOf(c \div 2)

\* The loop for (i = 0; i < buflen; i++) from byte i on.
RECURSIVE CountFrom(_, _, _)
CountFrom(buf, i, prefix_len) ==
    IF i > Len(buf) THEN prefix_len
    ELSE CountFrom(buf, i + 1, prefix_len + BitsOf(buf[i]))

\* static int count_prefix_len(const unsigned char *buf, size_t buflen),
\* buflen being the length of buf.
count_prefix_len(buf) == CountFrom(buf, 1, 0)

\* 2 to the power n.
RECURSIVE Pow2(_)
Pow2(n) == IF n = 0 THEN 1 ELSE 2 * Pow2(n - 1)

\* The byte k (1 is the first) of the contiguous netmask of p leading 1 bits.
MaskByte(p, k) ==
    IF p >= 8 * k THEN 255
    ELSE IF p <= 8 * (k - 1) THEN 0
    ELSE 256 - Pow2(8 * k - p)

\* The contiguous netmask of prefix length p over n bytes.
Netmask(p, n) == [k \in 1..n |-> MaskByte(p, k)]

\* The length of the byte buffers that are not netmasks.
MaxBufLen == 2

\* Byte values: no bit, the lowest, the highest, alternating ones, all.
SomeBytes == {0, 1, 128, 170, 255}

\* The buffers count_prefix_len is called with: each contiguous IPv4 netmask,
\* IPv6 netmasks, and any buffer of up to MaxBufLen of the bytes above.
PrefixBuffers ==
    {Netmask(p, 4) : p \in 0..32}
    \cup {Netmask(p, 16) : p \in {0, 10, 64, 127, 128}}
    \cup UNION {[1..n -> SomeBytes] : n \in 0..MaxBufLen}

PrefixInit ==
    /\ BinaryAgentInit
    /\ TextAgentOff
    /\ RelayOff
    /\ srv \in [pc : {"call"}, buf : PrefixBuffers, prefix_len : {-1}]
    /\ net = EmptyBag
    /\ links = NoLinks
    /\ round = NoRound
    /\ dropped = 0
    /\ ClientIdle

\* prefix_len = count_prefix_len(netmask, buflen)
PrefixCall ==
    /\ srv.pc = "call"
    /\ srv' = [srv EXCEPT !.pc = "done", !.prefix_len = count_prefix_len(srv.buf)]
    /\ UNCHANGED <<cache, clock, order, evicted, delivered, replies, relays,
                   lastAdd, relayLog, steps, agentAux, relayVars, textVars,
                   netVars, clientVars>>

SpecPrefix == PrefixInit /\ [][PrefixCall]_vars

\* The bit k (0 is the lowest) of the byte c.
Bit(c, k) == (c \div Pow2(k)) % 2

\* The number of pairs (byte, bit position) of buf holding a 1 bit.
OneBits(buf) ==
    Cardinality({<<i, k>> \in (1..Len(buf)) \X (0..7) : Bit(buf[i], k) = 1})

\* C38: count_prefix_len.  When count_prefix_len has returned, its result is
\* the number of 1 bits of the buffer and lies between 0 and 8 times the
\* length of the buffer; for the contiguous netmask of prefix length p over 4
\* bytes, p from 0 to 32, it is p.
C38_CountPrefixLen ==
    srv.pc = "done" =>
        /\ srv.prefix_len = OneBits(srv.buf)
        /\ srv.prefix_len >= 0
        /\ srv.prefix_len <= 8 * Len(srv.buf)
        /\ \A p \in 0..32 : srv.buf = Netmask(p, 4) => srv.prefix_len = p

\* C38 happens: the netmask 255.255.254.0 was counted as 23.
C38_Witness ==
    /\ srv.pc = "done"
    /\ srv.buf = <<255, 255, 254, 0>>
    /\ srv.buf = Netmask(23, 4)
    /\ srv.prefix_len = 23

\* The result is a prefix length only for a contiguous mask: the buffer
\* 170.0 has four 1 bits and no leading one.
C38_NonContiguous ==
    (srv.pc = "done" /\ srv.buf = <<170, 0>>) => srv.prefix_len = 4


(***************************************************************************)
(* The interface server (ifnetshowserv.c): the reports                     *)
(***************************************************************************)
\* Texts are sequences of characters; a fixed text of the source that is
\* never taken apart is one element.
\* sizeof(response): char response[BUF_SIZE * 4].
RESPONSE_SIZE == 12

\* sizeof(ifn): char ifn[128], read with %127s.
IFN_SIZE == 3

\* The most entries of the list getifaddrs returns.
MaxIfAddrs == 2

\* snprintf(buf, size, text) at the start of buf: at most size - 1 characters.
Snprintf(size, text) == TakePrefix(text, size - 1)

\* snprintf(outbuf + strlen(outbuf), outbuf_len - strlen(outbuf), text)
SnprintfAt(outbuf, outbuf_len, text) ==
    outbuf \o TakePrefix(text, outbuf_len - Len(outbuf) - 1)

\* "%d" for n >= 0.
RECURSIVE Decimal(_)
Decimal(n) ==
    IF n < 10 THEN <<DigitChars[n + 1]>>
    ELSE Decimal(n \div 10) \o <<DigitChars[(n % 10) + 1]>>

\* inet_ntop(family, addr, addr_str, sizeof(addr_str)) for the address
\* number addr of the model.
InetNtop(family, addr) ==
    <<IF family = "AF_INET" THEN "10.0.0." ELSE "fe80::">> \o Decimal(addr)

\* The names of the interfaces of the host.
IfNames == {<<"e", "0">>, <<"l", "o">>}

\* One entry of the list of getifaddrs: ifa_name (<<>>: NULL), the family of
\* ifa_addr ("none": ifa_addr is NULL), the address, and the bytes of
\* ifa_netmask (<<>>: NULL).
IfAddrEntries ==
    [name : IfNames, family : {"AF_INET"}, addr : {1},
     mask : {<<>>, Netmask(24, 4)}]
    \cup [name : IfNames, family : {"AF_INET6"}, addr : {1},
          mask : {Netmask(64, 16)}]
    \cup [name : IfNames \cup {<<>>}, family : {"AF_PACKET", "none"}, addr : {0},
          mask : {<<>>}]

\* The lists getifaddrs can return.
IfAddrLists == UNION {[1..n -> IfAddrEntries] : n \in 0..MaxIfAddrs}

\* static void append_address_with_prefix(family, addr, netmask, outbuf,
\* outbuf_len) for the entry e, whose address is not NULL.
append_address_with_prefix(e, outbuf, outbuf_len) ==
    IF e.mask = <<>>
    THEN SnprintfAt(outbuf, outbuf_len,
                    InetNtop(e.family, e.addr) \o <<" (prefix inconnu)", "\n">>)
    ELSE SnprintfAt(outbuf, outbuf_len,
                    InetNtop(e.family, e.addr) \o <<"/">>
                        \o Decimal(count_prefix_len(e.mask)) \o <<"\n">>)

\* if (!ifa->ifa_name || !ifa->ifa_addr) continue;
Skipped(e) == e.name = <<>> \/ e.family = "none"

\* if (family == AF_INET || family == AF_INET6)
IsIp(e) == e.family \in {"AF_INET", "AF_INET6"}

\* The loop of get_all_interfaces from entry i on.
RECURSIVE AllLoop(_, _, _, _)
AllLoop(ifaddr, i, outbuf, outbuf_len) ==
    IF i > Len(ifaddr) THEN outbuf
    ELSE IF Skipped(ifaddr[i]) \/ ~IsIp(ifaddr[i])
         THEN AllLoop(ifaddr, i + 1, outbuf, outbuf_len)
         ELSE AllLoop(ifaddr, i + 1,
                      append_address_with_prefix(ifaddr[i],
                          SnprintfAt(outbuf, outbuf_len,
                                     ifaddr[i].name \o <<": ">>),
                          outbuf_len),
                      outbuf_len)

\* static void get_all_interfaces(char *outbuf, size_t outbuf_len); ok tells
\* whether getifaddrs succeeds and ifaddr is the list it returns.
get_all_interfaces(ifaddr, ok, outbuf_len) ==
    IF ~ok THEN Snprintf(outbuf_len, <<"Erreur getifaddrs", "\n">>)
    ELSE AllLoop(ifaddr, 1, <<>>, outbuf_len)

\* The loop of get_one_interface from entry i on.
RECURSIVE OneLoop(_, _, _, _, _)
OneLoop(ifaddr, i, ifname, outbuf, outbuf_len) ==
    IF i > Len(ifaddr) THEN outbuf
    ELSE IF Skipped(ifaddr[i]) \/ ifaddr[i].name # ifname \/ ~IsIp(ifaddr[i])
         THEN OneLoop(ifaddr, i + 1, ifname, outbuf, outbuf_len)
         ELSE OneLoop(ifaddr, i + 1, ifname,
                      append_address_with_prefix(ifaddr[i], outbuf, outbuf_len),
                      outbuf_len)

\* static void get_one_interface(const char *ifname, char *outbuf,
\* size_t outbuf_len)
get_one_interface(ifname, ifaddr, ok, outbuf_len) ==
    IF ~ok THEN Snprintf(outbuf_len, <<"Erreur getifaddrs", "\n">>)
    ELSE LET outbuf == OneLoop(ifaddr, 1, ifname, <<>>, outbuf_len)
         IN  IF Len(outbuf) = 0
             THEN Snprintf(outbuf_len,
                           <<"Aucune adresse pour l'interface ">> \o ifname
                               \o <<"\n">>)
             ELSE outbuf

(***************************************************************************)
(* SpecIfServ: the accept loop of the interface server                     *)
(***************************************************************************)
\* The connections the server accepts in the model.
MaxConns == 2

WhiteSpace == {" ", "\n"}

\* The number of characters of WhiteSpace at the start of s, from i on.
RECURSIVE SpaceScan(_, _)
SpaceScan(s, i) ==
    IF i > Len(s) \/ s[i] \notin WhiteSpace THEN 0 ELSE 1 + SpaceScan(s, i + 1)

\* The number of characters before the first one of WhiteSpace, from i on.
RECURSIVE WordScan(_, _)
WordScan(s, i) ==
    IF i > Len(s) \/ s[i] \in WhiteSpace THEN 0 ELSE 1 + WordScan(s, i + 1)

\* sscanf(s, "%127s", ifn) into the cleared ifn: leading white space is
\* skipped, then at most IFN_SIZE - 1 characters up to the next white space
\* are stored; nothing is stored when there is no such character.
ScanWord(s) ==
    LET from == SpaceScan(s, 1) + 1
    IN  TakePrefix(SubSeq(s, from, from + WordScan(s, from) - 1), IFN_SIZE - 1)

\* strncmp(request, pre, strlen(pre)) == 0
StartsWith(request, pre) ==
    Len(request) >= Len(pre) /\ SubSeq(request, 1, Len(pre)) = pre

\* The branch main takes for the request read.
Dispatch(request) ==
    IF StartsWith(request, <<"-", "a">>) THEN "all"
    ELSE IF StartsWith(request, <<"-", "i", " ">>) THEN "one"
    ELSE "invalid"

\* The interface name handed to get_one_interface.
RequestIfName(request) == ScanWord(SubSeq(request, 4, Len(request)))

\* The response main prepares for the request; ok tells whether getifaddrs
\* succeeds.
Response(request, ifaddr, ok) ==
    CASE Dispatch(request) = "all" ->
            get_all_interfaces(ifaddr, ok, RESPONSE_SIZE)
      [] Dispatch(request) = "one" ->
            get_one_interface(RequestIfName(request), ifaddr, ok, RESPONSE_SIZE)
      [] OTHER ->
            Snprintf(RESPONSE_SIZE, <<"Requete invalide: ">> \o request \o <<"\n">>)

\* The texts a read() of the server returns (r > 0): the two requests of the
\* client, with known, unknown and over-long interface names, with more or
\* less white space, and other texts.
Requests ==
    {<<"-", "a">>, <<"-", "a", "b">>, <<"-", "a", "\n">>,
     <<"-", "i", " ", "e", "0">>, <<"-", "i", " ", "l", "o">>,
     <<"-", "i", " ", "z", "z">>, <<"-", "i", " ", "z", "z", "z">>,
     <<"-", "i", " ">>, <<"-", "i", " ", " ", "e", "0">>,
     <<"-", "i", " ", "e", "0", " ", "x">>,
     <<"-", "i">>, <<"-", "i", "e", "0">>, <<"-">>, <<"x">>, <<" ", "-", "a">>}

\* No connection was handled yet.
NoConnection ==
    [request |-> <<>>, kind |-> "none", ifname |-> <<>>, ok |-> TRUE,
     response |-> <<>>, written |-> <<>>]

\* The server after listen(): no connection is open.
IfServInit ==
    /\ BinaryAgentInit
    /\ TextAgentOff
    /\ RelayOff
    /\ srv \in [pc : {"accept"}, ifaddr : IfAddrLists, conns : {0}, open : {0},
                failed : {"none"}, last : {NoConnection}]
    /\ net = EmptyBag
    /\ links = NoLinks
    /\ round = NoRound
    /\ dropped = 0
    /\ ClientIdle

ServerIdle ==
    UNCHANGED <<cache, clock, order, evicted, delivered, replies, relays,
                lastAdd, relayLog, steps, agentAux, relayVars, textVars,
                netVars, clientVars>>

\* connfd = accept(...) returns a connection.
SrvAccept ==
    /\ srv.pc = "accept"
    /\ srv.conns < MaxConns
    /\ srv' = [srv EXCEPT !.pc = "read", !.conns = @ + 1, !.open = @ + 1]
    /\ ServerIdle

\* accept fails: perror, continue.
SrvAcceptFail ==
    /\ srv.pc = "accept"
    /\ srv.conns < MaxConns
    /\ srv' = [srv EXCEPT !.failed = "accept"]
    /\ ServerIdle

\* read returns r <= 0 (the peer closed without sending, or an error):
\* close(connfd), continue.
SrvReadNothing ==
    /\ srv.pc = "read"
    /\ srv' = [srv EXCEPT !.pc = "accept", !.open = @ - 1,
                          !.last = [NoConnection EXCEPT !.kind = "empty"]]
    /\ ServerIdle

\* read returns the request text; the response is prepared.
SrvRead ==
    \E request \in Requests, ok \in BOOLEAN :
        /\ srv.pc = "read"
        /\ srv' = [srv EXCEPT
                     !.pc = "write",
                     !.last = [request |-> request,
                               kind |-> Dispatch(request),
                               ifname |-> IF Dispatch(request) = "one"
                                          THEN RequestIfName(request) ELSE <<>>,
                               ok |-> ok \/ Dispatch(request) = "invalid",
                               response |-> Response(request, srv.ifaddr, ok),
                               written |-> <<>>]]
        /\ ServerIdle

\* write(connfd, response, strlen(response)); its result is not looked at
\* (SIGPIPE is ignored).
SrvWrite ==
    \E sent \in BOOLEAN :
        /\ srv.pc = "write"
        /\ srv' = [srv EXCEPT !.pc = "close",
                              !.last.written = IF sent THEN srv.last.response
                                               ELSE <<>>,
                              !.failed = IF sent THEN @ ELSE "write"]
        /\ ServerIdle

\* close(connfd), and the next iteration of while (1).
SrvClose ==
    /\ srv.pc = "close"
    /\ srv' = [srv EXCEPT !.pc = "accept", !.open = @ - 1]
    /\ ServerIdle

IfServNext ==
    \/ SrvAccept
    \/ SrvAcceptFail
    \/ SrvReadNothing
    \/ SrvRead
    \/ SrvWrite
    \/ SrvClose

SpecIfServ == IfServInit /\ [][IfServNext]_vars


(***************************************************************************)
(* Claims about the interface server                                       *)
(***************************************************************************)
\* The entries of the list that are IPv4 or IPv6 addresses of the interface
\* ifname, in the order of the list.
AddressesOf(ifname, ifaddr) ==
    SelectSeq(ifaddr, LAMBDA e : e.name = ifname /\ IsIp(e))

\* The report line of the address entry e.
LineOf(e) ==
    InetNtop(e.family, e.addr)
        \o (IF e.mask = <<>> THEN <<" (prefix inconnu)">>
            ELSE <<"/">> \o Decimal(OneBits(e.mask)))
        \o <<"\n">>

\* The lines of the entries es one after the other.
RECURSIVE Lines(_)
Lines(es) == IF es = <<>> THEN <<>> ELSE LineOf(Head(es)) \o Lines(Tail(es))

NoAddressMessage(ifname) ==
    <<"Aucune adresse pour l'interface ">> \o ifname \o <<"\n">>

\* The server has prepared the response of a list-one request.
OneServed == srv.last.kind = "one"

\* C36: interface report for one interface.  Whenever get_one_interface has
\* filled the response for an interface name, the response is not empty and
\* is either one line per IPv4/IPv6 address of that interface, or, when the
\* list holds no such address, the no-address message naming the interface.
C36_OneInterfaceReport ==
    OneServed =>
        /\ srv.last.response # <<>>
        /\ srv.last.response =
              IF AddressesOf(srv.last.ifname, srv.ifaddr) = <<>>
              THEN NoAddressMessage(srv.last.ifname)
              ELSE Lines(AddressesOf(srv.last.ifname, srv.ifaddr))

\* The part of C36 that holds in every case: the output is never empty.
C36_NeverEmpty == OneServed => srv.last.response # <<>>

\* What the code guarantees for C36: the statement holds when getifaddrs
\* succeeds and the lines fit into the response buffer.
C36_WhenEnumeratedAndFits ==
    ( /\ OneServed
      /\ srv.last.ok
      /\ Len(Lines(AddressesOf(srv.last.ifname, srv.ifaddr))) < RESPONSE_SIZE )
    => srv.last.response =
          IF AddressesOf(srv.last.ifname, srv.ifaddr) = <<>>
          THEN NoAddressMessage(srv.last.ifname)
          ELSE Lines(AddressesOf(srv.last.ifname, srv.ifaddr))

\* When getifaddrs fails the output is the error text, and a report longer
\* than the buffer is cut at RESPONSE_SIZE - 1 characters.
C36_OtherOutputs ==
    OneServed =>
        /\ ~srv.last.ok => srv.last.response = <<"Erreur getifaddrs", "\n">>
        /\ srv.last.ok =>
              srv.last.response =
                 IF AddressesOf(srv.last.ifname, srv.ifaddr) = <<>>
                 THEN NoAddressMessage(srv.last.ifname)
                 ELSE TakePrefix(Lines(AddressesOf(srv.last.ifname, srv.ifaddr)),
                                 RESPONSE_SIZE - 1)

\* The text after "-i " is an interface name: one word, no white space.
IsListOne(request) ==
    /\ StartsWith(request, <<"-", "i", " ">>)
    /\ Len(request) > 3
    /\ \A i \in 4..Len(request) : request[i] \notin WhiteSpace

InvalidMessage(request) == <<"Requete invalide: ">> \o request \o <<"\n">>

\* A request was read on the last connection.
RequestRead == srv.last.kind \in {"all", "one", "invalid"}

\* C37: request dispatch.  Whenever a request was read, it was served as
\* list-all only if it is "-a", as list-one only if it is "-i <ifname>", and
\* every other request got the invalid-request response; and whenever the
\* server is at accept, no connection is open: the one before was closed,
\* whether it was served, invalid or empty.
C37_RequestDispatch ==
    /\ RequestRead =>
          /\ srv.last.kind = "all" => srv.last.request = <<"-", "a">>
          /\ srv.last.kind = "one" =>
                /\ IsListOne(srv.last.request)
                /\ srv.last.ifname = SubSeq(srv.last.request, 4,
                                            Len(srv.last.request))
          /\ (srv.last.request # <<"-", "a">> /\ ~IsListOne(srv.last.request))
                => /\ srv.last.kind = "invalid"
                   /\ srv.last.response = InvalidMessage(srv.last.request)
    /\ srv.pc = "accept" => srv.open = 0

\* What the code guarantees for C37: the dispatch looks at the first two or
\* three characters only, and every connection is closed before the next
\* accept.
C37_PrefixDispatch ==
    /\ RequestRead =>
          /\ srv.last.kind = "all" <=> StartsWith(srv.last.request, <<"-", "a">>)
          /\ srv.last.kind = "one" <=>
                StartsWith(srv.last.request, <<"-", "i", " ">>)
          /\ srv.last.kind = "invalid" =>
                srv.last.response = InvalidMessage(srv.last.request)
    /\ srv.pc = "accept" => srv.open = 0
    /\ srv.open \in {0, 1}

\* The part of C37 about the connections, reached after an empty read, a
\* served and an invalid request: the server is back at accept with no
\* connection open.
C37_ClosedAfterEach ==
    (srv.pc = "accept" /\ srv.conns > 0) =>
        /\ srv.open = 0
        /\ srv.last.kind \in {"all", "one", "invalid", "empty"}

=============================================================================
